---- MODULE Spec2Model ----
(***************************************************************************)
(* Model of the wikipedia-html-extractor ingestion pipelines.              *)
(*                                                                         *)
(* Four programs of the repository are modelled over one set of variables; *)
(* `prog` says which one a behaviour runs:                                 *)
(*   "old"    src/src/extract.rs      thread per source, inline sink       *)
(*   "fs"     src/src/extract/files.rs  FileExtractListener + ExtractState *)
(*   "sql"    src/src/extract/sql.rs  N parse workers -> bounded channel   *)
(*                                    -> single writer                     *)
(*   "nested" src/src/ensure_nested.rs  worker pool moving flat files      *)
(*                                                                         *)
(* ExtractState, run_extract, extract_threaded and ExtractTask are used by *)
(* files.rs and sql.rs but their source is not part of src/; they are      *)
(* modelled from sections 4.5 and 4.6 of the specification.                *)
(***************************************************************************)
EXTENDS Integers, Sequences, FiniteSets, TLC

\* ---------------------------------------------------------------- bounds
\* Largest number of input paths (command.targets) a run is given.
MaxPaths == 2
\* Largest number of elements (records or malformed values) in one stream.
MaxRecords == 2
\* Threads of the ensure-nested pool. The source spawns 15
\* (ensure_nested.rs:24); the model runs the same pool with fewer threads.
PoolSize == 2
\* Capacity of ensure-nested's channel of paths. The source sets 500
\* (ensure_nested.rs:22); the model uses a capacity the entries can fill.
PATH_CHANNEL_BOUND == 1
\* Largest worker count of the relational run (command.workers, -j).
MaxWorkers == 2
\* Largest record limit (command.limit) tried; NoLimit stands for None.
MaxLimit == 1
\* Longest name (raw key, sanitized key, file name) a function is applied to.
MaxNameLen == 3
\* The most pieces a url is put together from.
MaxChunks == 3
\* Capacity of the channel between the parse workers and the writer. The
\* source sets 50 (sql.rs:13); the model runs the same protocol over a
\* capacity small enough for the channel to fill.
ARTICLE_CHANNEL_BOUND == 1

NoLimit == 0 - 1

\* ------------------------------------------------------------ input data
FileKinds == {"file", "missing", "unreadable"}

\* One element of a record stream. wf is FALSE for a malformed JSON value;
\* marker says whether url holds `/wiki/`; key is the record's identity (the
\* sanitized canonical key in the filesystem sink, article.name in the
\* relational one); env is what the environment does to this record: the
\* shard directory cannot be created, the file cannot be written, zstd
\* fails, the INSERT into article or into article_body fails with an error
\* other than a constraint violation.
FileElements ==
    { [wf |-> FALSE, marker |-> FALSE, key |-> "a", env |-> "ok"],
      [wf |-> TRUE,  marker |-> FALSE, key |-> "a", env |-> "ok"],
      [wf |-> TRUE,  marker |-> TRUE,  key |-> "a", env |-> "ok"],
      [wf |-> TRUE,  marker |-> TRUE,  key |-> "b", env |-> "ok"],
      [wf |-> TRUE,  marker |-> TRUE,  key |-> "a", env |-> "mkdirfail"],
      [wf |-> TRUE,  marker |-> TRUE,  key |-> "b", env |-> "writefail"] }

SqlElements ==
    { [wf |-> FALSE, marker |-> TRUE, key |-> "a", env |-> "ok"],
      [wf |-> TRUE,  marker |-> TRUE, key |-> "a", env |-> "ok"],
      [wf |-> TRUE,  marker |-> TRUE, key |-> "b", env |-> "ok"],
      [wf |-> TRUE,  marker |-> TRUE, key |-> "a", env |-> "zstd"],
      [wf |-> TRUE,  marker |-> TRUE, key |-> "b", env |-> "insert"],
      [wf |-> TRUE,  marker |-> TRUE, key |-> "a", env |-> "body"] }

NoElement == [wf |-> FALSE, marker |-> FALSE, key |-> "a", env |-> "none"]

\* ---------------------------------------------------------------- errors
\* Every result and error is a record of the same shape.
Ok == [kind |-> "Ok", cause |-> "", at |-> 0]
NoResult == [kind |-> "None", cause |-> "", at |-> 0]
IoError(p) == [kind |-> "Io", cause |-> "open", at |-> p]
NotAFile(p) == [kind |-> "Exit", cause |-> "NotAFile", at |-> p]
OpenExit(p) == [kind |-> "Exit", cause |-> "open", at |-> p]
CancelledError == [kind |-> "Listener", cause |-> "Cancelled", at |-> 0]
ZstdError(c) == [kind |-> "Listener", cause |-> "zstd", at |-> c]
DbError(what, c) == [kind |-> "Db", cause |-> what, at |-> c]
PanicError == [kind |-> "Panic", cause |-> "Unexpected panic in worker thread", at |-> 0]
SendPanic(c) == [kind |-> "Panic", cause |-> "send", at |-> c]

IsFatal(e) == e.kind \in {"Io", "Exit", "Db", "Panic"} \/ (e.kind = "Listener" /\ e.cause # "Cancelled")

VARIABLES
    prog,          \* which program runs
    fileKind,      \* command.targets: for each path, what is on disk there
    limit,         \* command.limit (NoLimit for None)
    skip_existing, \* command.skip_existing
    workers,       \* command.workers
    mainpc,        \* position of the orchestrator
    result,        \* what the orchestrator returned (NoResult while running)
    wpc,           \* position of each worker thread
    wpath,         \* the path a worker is reading
    wpos,          \* elements a worker has read from its current stream
    wev,           \* the ParseEvent / SqlArticleMessage a worker holds
    wres,          \* what a worker thread returned
    count,         \* ExtractState.count / extract.rs `count`
    skipped,       \* the sink's skipped counter
    stopRequested, \* ExtractState stop flag
    firstError,    \* ExtractState first-error latch
    files,         \* keys of the files present under target_dir
    pathQueue,     \* the unbounded channel of input paths
    pathSent,      \* how many targets the orchestrator has enqueued
    pathOpen,      \* path_sender not yet dropped
    articleChan,   \* the bounded channel of SqlArticleMessage
    db,            \* the database: article rows, article_body rows
    joined,        \* how many worker handles the orchestrator has joined
    okNames,       \* history: the names whose write returned Ok
    todo,          \* ensure-nested: entries read_dir has not yielded yet
    fsFiles,       \* ensure-nested: paths of the regular files
    fsDirs,        \* ensure-nested: paths of the directories
    existing_dirs, \* ensure-nested: the shared set of known directories
    wfile,         \* ensure-nested: the file name a worker is moving
    acct,          \* history: how many elements ended in which way
    errLog,        \* history: the fatal errors, in the order they occurred
    fileBody,      \* for each file under target_dir, the record whose body it holds
    lastSunk,      \* history: per source, the position of the last record written
    streams,       \* the elements of each source, when they are fixed beforehand
    run,           \* 1 in the first run of a program, 2 when it is run again
    snap,          \* what the second run found when it started
    fin,           \* the arguments a function is applied to
    fout           \* what the function returned

vars == << prog, fileKind, limit, skip_existing, workers, mainpc, result,
           wpc, wpath, wpos, wev, wres, count, skipped, stopRequested,
           firstError, files, pathQueue, pathSent, pathOpen, articleChan,
           db, joined, okNames, todo, fsFiles, fsDirs, existing_dirs, wfile,
           acct, errLog, fileBody, lastSunk, streams, run, snap, fin, fout >>

\* Groups of variables, for UNCHANGED.
nestedVars == << todo, fsFiles, fsDirs, existing_dirs, wfile >>
auxVars == << streams, run, snap, fin, fout >>
runCfg == << prog, fileKind, limit, skip_existing, workers, nestedVars,
            auxVars >>
cfgVars == << runCfg, fileBody, lastSunk >>
latchVars == << stopRequested, firstError >>
sqlVars == << pathQueue, pathSent, pathOpen, articleChan, db, joined,
             okNames >>

Max2(a, b) == IF a > b THEN a ELSE b
MaxSlots == Max2(Max2(MaxPaths, MaxWorkers), PoolSize)
Slots == 1..MaxSlots
Paths == 1..Len(fileKind)

NoEvent == [elem |-> NoElement, count |-> 0, src |-> 0, pos |-> 0]

AcctZero ==
    [read |-> 0, decodeErr |-> 0, noMarker |-> 0, mkdirFail |-> 0,
     writeFail |-> 0, written |-> 0, skipped |-> 0, cancelled |-> 0,
     sent |-> 0, stored |-> 0, duplicate |-> 0]

Bump(f) == [acct EXCEPT ![f] = @ + 1]

TargetLists ==
    UNION { [1..n -> FileKinds] : n \in 1..MaxPaths }

Limits == {NoLimit} \cup 0..MaxLimit

EmptyDb == [article |-> {}, body |-> {}, lastId |-> 0]

NoStreams == << >>
NoSnap == [files |-> {}, fileBody |-> {}, fsFiles |-> {}, fsDirs |-> {}]
NoInput ==
    [fn |-> "none", target_dir |-> << >>, name |-> << >>,
     no_nesting |-> FALSE, other |-> << >>]
NoOutput ==
    [fn |-> "none", times |-> 0, target_file |-> << >>, old_target_file |-> << >>,
     moved_to |-> << >>, old_moved_to |-> << >>, again |-> << >>,
     sanitized |-> << >>, old_sanitized |-> << >>, other_sanitized |-> << >>,
     main_sanitized |-> << >>, resanitized |-> << >>,
     key |-> [ok |-> FALSE, val |-> << >>],
     old_key |-> [ok |-> FALSE, val |-> << >>]]

InitNoNested ==
    /\ todo = {}
    /\ fsFiles = {}
    /\ fsDirs = {}
    /\ existing_dirs = {}
    /\ wfile = [w \in Slots |-> << >>]

InitRun ==
    /\ mainpc = "start"
    /\ result = NoResult
    /\ wpc = [w \in Slots |-> "idle"]
    /\ wpath = [w \in Slots |-> 0]
    /\ wpos = [w \in Slots |-> 0]
    /\ wev = [w \in Slots |-> NoEvent]
    /\ wres = [w \in Slots |-> NoResult]
    /\ count = 0
    /\ skipped = 0
    /\ stopRequested = FALSE
    /\ firstError = NoResult
    /\ files = {}
    /\ pathQueue = << >>
    /\ pathSent = 0
    /\ pathOpen = TRUE
    /\ articleChan = << >>
    /\ db = EmptyDb
    /\ joined = 0
    /\ okNames = {}
    /\ acct = AcctZero
    /\ errLog = << >>
    /\ fileBody = {}
    /\ lastSunk = [p \in 1..MaxPaths |-> 0]
    /\ run = 1
    /\ snap = NoSnap
    /\ fout = NoOutput

\* The elements of a stream are drawn as they are read, and no function is
\* applied on its own.
InitLazy ==
    /\ streams = NoStreams
    /\ fin = NoInput

InitCommon ==
    /\ fileKind \in TargetLists
    /\ InitLazy
    /\ InitNoNested
    /\ InitRun

\* ------------------------------------------------- the filesystem sink
\* Mutant: skip_existing is not looked at.
FileSinkOutcome_SkipIgnored(e, skip, fl) ==
    IF ~e.marker THEN "noMarker"
    ELSE IF e.env = "mkdirfail" THEN "mkdirFail"
    ELSE IF e.env = "writefail" THEN "writeFail"
    ELSE "written"

\* What one well-formed record comes to in the filesystem sink: the body of
\* 'streamLoop in extract.rs, and on_parse in files.rs after its limit check.
FileSinkOutcome(e, skip, fl) ==
    IF ~e.marker THEN "noMarker"
    ELSE IF e.env = "mkdirfail" THEN "mkdirFail"
    ELSE IF skip /\ e.key \in fl THEN "skipped"
    ELSE IF e.env = "writefail" THEN "writeFail"
    ELSE "written"

\* Mutant: the skipped counter is never advanced.
SkippedAfter_Forgotten(out, n) == n

\* The skipped counter after an element that came to `out`.
SkippedAfter(out, n) == IF out = "skipped" THEN n + 1 ELSE n

\* The files under target_dir after an element that came to `out`.
FilesAfter(out, e, fl) == IF out = "written" THEN fl \cup {e.key} ELSE fl

\* Mutant: the body is written before skip_existing is looked at.
FileBodyAfter_WritesFirst(out, e, b, fb) ==
    IF out \in {"written", "skipped"}
    THEN { r \in fb : r.key # e.key } \cup {[key |-> e.key, body |-> b]}
    ELSE fb

\* std::fs::write (extract.rs 112, files.rs 83) makes the file hold the body
\* of this record, whatever it held; b names the record, by source and
\* position.
FileBodyAfter(out, e, b, fb) ==
    IF out = "written"
    THEN { r \in fb : r.key # e.key } \cup {[key |-> e.key, body |-> b]}
    ELSE fb

\* The last place of each source whose record was written: a record is
\* written by the thread that read it, before that thread reads the next.
LastSunkAfter(out, b, ls) ==
    IF out = "written" THEN [ls EXCEPT ![b.src] = b.pos] ELSE ls

\* The elements the stream of worker w can give next: any, when elements are
\* drawn as they are read; else the one at its position.
NextElements(w, all) ==
    IF streams = NoStreams THEN all
    ELSE IF wpos[w] < Len(streams[wpath[w]])
    THEN { streams[wpath[w]][wpos[w] + 1] }
    ELSE {}

\* The stream of worker w has no further element.
StreamEnded(w) ==
    IF streams = NoStreams THEN TRUE
    ELSE wpos[w] = Len(streams[wpath[w]])

\* ------------------------------------------------------ program "old"
InitOld ==
    /\ prog = "old"
    /\ limit = NoLimit
    /\ skip_existing \in BOOLEAN
    /\ workers = 0
    /\ InitCommon

FirstMissing == CHOOSE p \in Paths :
    /\ fileKind[p] = "missing"
    /\ \A q \in Paths : fileKind[q] = "missing" => p <= q

\* extract.rs 50-64: every target must be a file, else exit(1); then one
\* scoped thread per path.
OldStart ==
    /\ prog = "old" /\ mainpc = "start"
    /\ IF \E p \in Paths : fileKind[p] = "missing"
       THEN /\ mainpc' = "done"
            /\ result' = NotAFile(FirstMissing)
            /\ errLog' = Append(errLog, NotAFile(FirstMissing))
            /\ UNCHANGED << wpc, wpath >>
       ELSE /\ mainpc' = "join"
            /\ wpc' = [w \in Slots |-> IF w \in Paths THEN "open" ELSE "idle"]
            /\ wpath' = [w \in Slots |-> IF w \in Paths THEN w ELSE 0]
            /\ UNCHANGED << result, errLog >>
    /\ UNCHANGED << cfgVars, latchVars, sqlVars, wpos, wev, wres, count,
                    skipped, files, acct >>

\* extract.rs 65-71: File::open; a failure ends the whole process.
OldOpen(w) ==
    /\ prog = "old" /\ mainpc = "join" /\ wpc[w] = "open"
    /\ IF fileKind[wpath[w]] = "file"
       THEN /\ wpc' = [wpc EXCEPT ![w] = "loop"]
            /\ UNCHANGED << mainpc, result, errLog >>
       ELSE /\ mainpc' = "done"
            /\ result' = OpenExit(wpath[w])
            /\ errLog' = Append(errLog, OpenExit(wpath[w]))
            /\ UNCHANGED wpc
    /\ UNCHANGED << cfgVars, latchVars, sqlVars, wpath, wpos, wev, wres,
                    count, skipped, files, acct >>

\* extract.rs 75, 141-142: the stream is exhausted, the thread ends.
OldStreamEnd(w) ==
    /\ prog = "old" /\ mainpc = "join" /\ wpc[w] = "loop"
    /\ StreamEnded(w)
    /\ wpc' = [wpc EXCEPT ![w] = "done"]
    /\ wres' = [wres EXCEPT ![w] = Ok]
    /\ UNCHANGED << cfgVars, latchVars, sqlVars, mainpc, result, wpath, wpos,
                    wev, count, skipped, files, acct, errLog >>

\* Mutant: the thread stores its own tally of writes in the counter.
OldStreamLoop_OwnTally(w) ==
    /\ prog = "old" /\ mainpc = "join" /\ wpc[w] = "loop"
    /\ wpos[w] < MaxRecords
    /\ \E e \in NextElements(w, FileElements) :
         LET out == IF e.wf THEN FileSinkOutcome(e, skip_existing, files)
                    ELSE "decodeErr"
         IN /\ wpos' = [wpos EXCEPT ![w] = @ + 1]
            /\ count' = IF out = "written" THEN wpos[w] + 1 ELSE count
            /\ skipped' = SkippedAfter(out, skipped)
            /\ files' = FilesAfter(out, e, files)
            /\ fileBody' = FileBodyAfter(out, e,
                               [src |-> wpath[w], pos |-> wpos[w] + 1], fileBody)
            /\ lastSunk' = LastSunkAfter(out,
                               [src |-> wpath[w], pos |-> wpos[w] + 1], lastSunk)
            /\ acct' = [acct EXCEPT !.read = @ + 1, ![out] = @ + 1]
    /\ UNCHANGED << runCfg, latchVars, sqlVars, mainpc, result, wpc, wpath,
                    wev, wres, errLog >>

\* extract.rs 75-141: one turn of 'streamLoop.
OldStreamLoop(w) ==
    /\ prog = "old" /\ mainpc = "join" /\ wpc[w] = "loop"
    /\ wpos[w] < MaxRecords
    /\ \E e \in NextElements(w, FileElements) :
         LET out == IF e.wf THEN FileSinkOutcome(e, skip_existing, files)
                    ELSE "decodeErr"
         IN /\ wpos' = [wpos EXCEPT ![w] = @ + 1]
            /\ count' = IF out = "written" THEN count + 1 ELSE count
            /\ skipped' = SkippedAfter(out, skipped)
            /\ files' = FilesAfter(out, e, files)
            /\ fileBody' = FileBodyAfter(out, e,
                               [src |-> wpath[w], pos |-> wpos[w] + 1], fileBody)
            /\ lastSunk' = LastSunkAfter(out,
                               [src |-> wpath[w], pos |-> wpos[w] + 1], lastSunk)
            /\ acct' = [acct EXCEPT !.read = @ + 1, ![out] = @ + 1]
    /\ UNCHANGED << runCfg, latchVars, sqlVars, mainpc, result, wpc, wpath,
                    wev, wres, errLog >>

\* extract.rs 144-146: the scope ends when every thread has ended.
OldJoin ==
    /\ prog = "old" /\ mainpc = "join"
    /\ \A w \in Paths : wpc[w] = "done"
    /\ mainpc' = "done"
    /\ result' = Ok
    /\ UNCHANGED << cfgVars, latchVars, sqlVars, wpc, wpath, wpos, wev, wres,
                    count, skipped, files, acct, errLog >>

NextOld ==
    \/ OldStart
    \/ \E w \in Slots : OldOpen(w) \/ OldStreamEnd(w) \/ OldStreamLoop(w)
    \/ OldJoin

SpecOld == InitOld /\ [][NextOld]_vars

\* ------------------------------------------- ExtractState::run_extract
\* The first error is latched and every later one dropped; stop is requested.
LatchAfter(e, latch) == IF latch = NoResult THEN e ELSE latch

\* Mutant: the arm that ignores a cancellation is missing.
SqlWorkerGoesOn_OkOnly(r) == r = Ok

\* spawn_worker's match on what run_extract returned (sql.rs 128-132): go on
\* with the next path after Ok or a cancellation, return any other error.
SqlWorkerGoesOn(r) == r = Ok \/ r = CancelledError

\* run_extract returns r to the thread that called it. The thread of
\* extract_threaded ends with r; the relational worker goes on or ends.
RunReturn(w, r) ==
    /\ IF r = Ok
       THEN UNCHANGED << latchVars, errLog >>
       ELSE /\ firstError' = LatchAfter(r, firstError)
            /\ stopRequested' = TRUE
            /\ errLog' = IF IsFatal(r) THEN Append(errLog, r) ELSE errLog
    /\ IF prog = "sql" /\ SqlWorkerGoesOn(r)
       THEN /\ wpc' = [wpc EXCEPT ![w] = "recv"]
            /\ UNCHANGED wres
       ELSE /\ wpc' = [wpc EXCEPT ![w] = "done"]
            /\ wres' = [wres EXCEPT ![w] = r]

\* run_extract opens its source; a failure is fatal for the worker.
RunOpen(w) ==
    /\ prog \in {"fs", "sql"} /\ mainpc # "done" /\ wpc[w] = "open"
    /\ IF fileKind[wpath[w]] = "file"
       THEN /\ wpc' = [wpc EXCEPT ![w] = "loop"]
            /\ UNCHANGED << wres, latchVars, errLog >>
       ELSE RunReturn(w, IoError(wpath[w]))
    /\ UNCHANGED << cfgVars, sqlVars, mainpc, result, wpath, wpos, wev,
                    count, skipped, files, acct >>

\* Before each record the stop flag is polled; a set flag or the end of the
\* stream ends run_extract cleanly.
RunEnd(w) ==
    /\ prog \in {"fs", "sql"} /\ mainpc # "done" /\ wpc[w] = "loop"
    /\ IF stopRequested THEN TRUE ELSE StreamEnded(w)
    /\ RunReturn(w, Ok)
    /\ UNCHANGED << cfgVars, sqlVars, mainpc, result, wpath, wpos, wev,
                    count, skipped, files, acct >>

StreamElements == IF prog = "sql" THEN SqlElements ELSE FileElements

\* Mutant: on_parse_error hands the decode error back to run_extract.
OnParseError_Propagates == [kind |-> "Listener", cause |-> "decode", at |-> 0]

\* on_parse_error (files.rs 99-106, sql.rs 66-73) logs the cause and
\* returns Ok(()).
OnParseError == Ok

\* Mutant: the stop flag is not polled before a record.
RunDecode_NoPoll(w) ==
    /\ prog \in {"fs", "sql"} /\ mainpc # "done" /\ wpc[w] = "loop"
    /\ wpos[w] < MaxRecords
    /\ \E e \in NextElements(w, StreamElements) :
         /\ wpos' = [wpos EXCEPT ![w] = @ + 1]
         /\ IF e.wf
            THEN /\ wev' = [wev EXCEPT ![w] =
                              [elem |-> e, count |-> count,
                               src |-> wpath[w], pos |-> wpos[w] + 1]]
                 /\ count' = count + 1
                 /\ wpc' = [wpc EXCEPT ![w] = "parse"]
                 /\ acct' = Bump("read")
                 /\ UNCHANGED << wres, latchVars, errLog >>
            ELSE /\ acct' = [acct EXCEPT !.read = @ + 1, !.decodeErr = @ + 1]
                 /\ UNCHANGED << wev, count >>
                 /\ IF OnParseError = Ok
                    THEN UNCHANGED << wpc, wres, latchVars, errLog >>
                    ELSE RunReturn(w, OnParseError)
    /\ UNCHANGED << cfgVars, sqlVars, mainpc, result, wpath, skipped, files >>

\* The next element is decoded: a malformed one goes to on_parse_error, whose
\* error, if it returns one, ends run_extract; a record takes the next count
\* and goes to on_parse.
RunDecode(w) ==
    /\ prog \in {"fs", "sql"} /\ mainpc # "done" /\ wpc[w] = "loop"
    /\ ~stopRequested
    /\ wpos[w] < MaxRecords
    /\ \E e \in NextElements(w, StreamElements) :
         /\ wpos' = [wpos EXCEPT ![w] = @ + 1]
         /\ IF e.wf
            THEN /\ wev' = [wev EXCEPT ![w] =
                              [elem |-> e, count |-> count,
                               src |-> wpath[w], pos |-> wpos[w] + 1]]
                 /\ count' = count + 1
                 /\ wpc' = [wpc EXCEPT ![w] = "parse"]
                 /\ acct' = Bump("read")
                 /\ UNCHANGED << wres, latchVars, errLog >>
            ELSE /\ acct' = [acct EXCEPT !.read = @ + 1, !.decodeErr = @ + 1]
                 /\ UNCHANGED << wev, count >>
                 /\ IF OnParseError = Ok
                    THEN UNCHANGED << wpc, wres, latchVars, errLog >>
                    ELSE RunReturn(w, OnParseError)
    /\ UNCHANGED << cfgVars, sqlVars, mainpc, result, wpath, skipped, files >>

\* ------------------------------------------------------- program "fs"
InitFs ==
    /\ prog = "fs"
    /\ limit \in Limits
    /\ skip_existing \in BOOLEAN
    /\ workers = 0
    /\ InitCommon

\* FileExtractListener::on_parse: the limit check, then the sink.
FileOnParse(ev, lim, skip, fl) ==
    IF lim # NoLimit /\ ev.count >= lim THEN "cancelled"
    ELSE FileSinkOutcome(ev.elem, skip, fl)

\* files.rs 118-124 and extract_threaded: the inputs are validated, then one
\* worker per source is spawned.
FsStart ==
    /\ prog = "fs" /\ mainpc = "start"
    /\ IF \E p \in Paths : fileKind[p] = "missing"
       THEN /\ mainpc' = "done"
            /\ result' = NotAFile(FirstMissing)
            /\ errLog' = Append(errLog, NotAFile(FirstMissing))
            /\ UNCHANGED << wpc, wpath >>
       ELSE /\ mainpc' = "wait"
            /\ wpc' = [w \in Slots |-> IF w \in Paths THEN "open" ELSE "idle"]
            /\ wpath' = [w \in Slots |-> IF w \in Paths THEN w ELSE 0]
            /\ UNCHANGED << result, errLog >>
    /\ UNCHANGED << cfgVars, latchVars, sqlVars, wpos, wev, wres, count,
                    skipped, files, acct >>

\* files.rs 41-97: on_parse on the event the worker holds.
FsParse(w) ==
    /\ prog = "fs" /\ mainpc # "done" /\ wpc[w] = "parse"
    /\ LET out == FileOnParse(wev[w], limit, skip_existing, files)
       IN /\ skipped' = SkippedAfter(out, skipped)
          /\ files' = FilesAfter(out, wev[w].elem, files)
          /\ fileBody' = FileBodyAfter(out, wev[w].elem,
                             [src |-> wev[w].src, pos |-> wev[w].pos], fileBody)
          /\ lastSunk' = LastSunkAfter(out,
                             [src |-> wev[w].src, pos |-> wev[w].pos], lastSunk)
          /\ acct' = Bump(out)
          /\ IF out = "cancelled"
             THEN RunReturn(w, CancelledError)
             ELSE /\ wpc' = [wpc EXCEPT ![w] = "loop"]
                  /\ UNCHANGED << wres, latchVars, errLog >>
    /\ wev' = [wev EXCEPT ![w] = NoEvent]
    /\ UNCHANGED << runCfg, sqlVars, mainpc, result, wpath, wpos, count >>

\* files.rs 124-131: what extract makes of the result of task.wait().
FsFinish(r) == IF r = CancelledError THEN Ok ELSE r

\* ExtractTask::wait: blocks until every worker has ended, then gives the
\* latched error if there is one, else success.
FsWait ==
    /\ prog = "fs" /\ mainpc = "wait"
    /\ \A w \in Paths : wpc[w] = "done"
    /\ mainpc' = "done"
    /\ result' = FsFinish(IF firstError = NoResult THEN Ok ELSE firstError)
    /\ UNCHANGED << cfgVars, latchVars, sqlVars, wpc, wpath, wpos, wev, wres,
                    count, skipped, files, acct, errLog >>

NextFs ==
    \/ FsStart
    \/ \E w \in Slots : RunOpen(w) \/ RunEnd(w) \/ RunDecode(w) \/ FsParse(w)
    \/ FsWait

SpecFs == InitFs /\ [][NextFs]_vars

\* ------------------------------------------------------ program "sql"
InitSql ==
    /\ prog = "sql"
    /\ limit \in Limits
    /\ skip_existing = FALSE
    /\ workers \in 1..MaxWorkers
    /\ InitCommon

Workers == 1..workers

\* sql.rs 163-187: the connection is opened, the two channels are made and
\* command.workers threads are spawned. The targets are not looked at.
SqlStart ==
    /\ prog = "sql" /\ mainpc = "start"
    /\ mainpc' = "enqueue"
    /\ wpc' = [w \in Slots |-> IF w \in Workers THEN "recv" ELSE "idle"]
    /\ UNCHANGED << cfgVars, latchVars, sqlVars, result, wpath, wpos, wev,
                    wres, count, skipped, files, acct, errLog >>

\* sql.rs 188-190: a send on the unbounded channel never blocks.
SqlEnqueue ==
    /\ prog = "sql" /\ mainpc = "enqueue"
    /\ pathSent < Len(fileKind)
    /\ pathQueue' = Append(pathQueue, pathSent + 1)
    /\ pathSent' = pathSent + 1
    /\ UNCHANGED << cfgVars, latchVars, mainpc, result, wpc, wpath, wpos, wev,
                    wres, count, skipped, files, pathOpen, articleChan, db,
                    joined, okNames, acct, errLog >>

\* Mutant: path_sender is kept alive while the writer runs.
SqlDropPathSender_Kept ==
    /\ prog = "sql" /\ mainpc = "enqueue"
    /\ pathSent = Len(fileKind)
    /\ mainpc' = "write"
    /\ UNCHANGED << cfgVars, latchVars, result, wpc, wpath, wpos, wev, wres,
                    count, skipped, files, pathQueue, pathSent, pathOpen,
                    articleChan, db, joined, okNames, acct, errLog >>

\* sql.rs 191: drop(path_sender).
SqlDropPathSender ==
    /\ prog = "sql" /\ mainpc = "enqueue"
    /\ pathSent = Len(fileKind)
    /\ pathOpen' = FALSE
    /\ mainpc' = "write"
    /\ UNCHANGED << cfgVars, latchVars, result, wpc, wpath, wpos, wev, wres,
                    count, skipped, files, pathQueue, pathSent, articleChan,
                    db, joined, okNames, acct, errLog >>

\* Mutant: a path that is received stays in the queue for the other workers.
SqlRecvPath_Shared(w) ==
    /\ prog = "sql" /\ mainpc # "done" /\ wpc[w] = "recv"
    /\ IF pathQueue # << >>
       THEN /\ wpath' = [wpath EXCEPT ![w] = Head(pathQueue)]
            /\ wpos' = [wpos EXCEPT ![w] = 0]
            /\ wpc' = [wpc EXCEPT ![w] = "open"]
            /\ UNCHANGED << wres, pathQueue >>
       ELSE /\ ~pathOpen
            /\ wpc' = [wpc EXCEPT ![w] = "done"]
            /\ wres' = [wres EXCEPT ![w] = Ok]
            /\ UNCHANGED << wpath, wpos, pathQueue >>
    /\ UNCHANGED << cfgVars, latchVars, mainpc, result, wev, count, skipped,
                    files, pathSent, pathOpen, articleChan, db, joined,
                    okNames, acct, errLog >>

\* sql.rs 126, 134: path_recev.recv() gives the next path, blocks while the
\* queue is empty and the sender alive, and ends the loop once the queue is
\* empty and the sender dropped.
SqlRecvPath(w) ==
    /\ prog = "sql" /\ mainpc # "done" /\ wpc[w] = "recv"
    /\ IF pathQueue # << >>
       THEN /\ wpath' = [wpath EXCEPT ![w] = Head(pathQueue)]
            /\ pathQueue' = Tail(pathQueue)
            /\ wpos' = [wpos EXCEPT ![w] = 0]
            /\ wpc' = [wpc EXCEPT ![w] = "open"]
            /\ UNCHANGED wres
       ELSE /\ ~pathOpen
            /\ wpc' = [wpc EXCEPT ![w] = "done"]
            /\ wres' = [wres EXCEPT ![w] = Ok]
            /\ UNCHANGED << wpath, wpos, pathQueue >>
    /\ UNCHANGED << cfgVars, latchVars, mainpc, result, wev, count, skipped,
                    files, pathSent, pathOpen, articleChan, db, joined,
                    okNames, acct, errLog >>

\* SqlMessageListener::on_parse up to the send (sql.rs 47-54).
SqlOnParse(ev, lim) ==
    IF lim # NoLimit /\ ev.count > lim THEN CancelledError
    ELSE IF ev.elem.env = "zstd" THEN ZstdError(ev.count)
    ELSE Ok

SqlParse(w) ==
    /\ prog = "sql" /\ mainpc # "done" /\ wpc[w] = "parse"
    /\ LET r == SqlOnParse(wev[w], limit)
       IN IF r = Ok
          THEN /\ wpc' = [wpc EXCEPT ![w] = "send"]
               /\ UNCHANGED << wev, wres, latchVars, errLog, acct >>
          ELSE /\ RunReturn(w, r)
               /\ wev' = [wev EXCEPT ![w] = NoEvent]
               /\ acct' = IF r = CancelledError THEN Bump("cancelled") ELSE acct
    /\ UNCHANGED << cfgVars, sqlVars, mainpc, result, wpath, wpos, count,
                    skipped, files >>

\* Mutant: the channel is made with unbounded().
ChannelFull_Unbounded(ch) == FALSE

\* sql.rs 173: bounded(ARTICLE_CHANNEL_BOUND); the channel is full when it
\* holds that many messages.
ChannelFull(ch) == Len(ch) >= ARTICLE_CHANNEL_BOUND

\* Mutant: the worker has a connection of its own and writes the record
\* itself.
SqlSend_WritesItself(w) ==
    /\ prog = "sql" /\ mainpc # "done" /\ wpc[w] = "send"
    /\ db' = [article |-> db.article \cup
                            {[id |-> db.lastId + 1, name |-> wev[w].elem.key]},
              body |-> db.body \cup {[id |-> Cardinality(db.body) + 1,
                                    article_id |-> db.lastId + 1]},
              lastId |-> db.lastId + 1]
    /\ wev' = [wev EXCEPT ![w] = NoEvent]
    /\ wpc' = [wpc EXCEPT ![w] = "loop"]
    /\ acct' = Bump("sent")
    /\ UNCHANGED << cfgVars, latchVars, mainpc, result, wpath, wpos, wres,
                    count, skipped, files, pathQueue, pathSent, pathOpen,
                    articleChan, joined, okNames, errLog >>

\* sql.rs 55-63: article_sender.send blocks while the channel is full.
SqlSend(w) ==
    /\ prog = "sql" /\ mainpc # "done" /\ wpc[w] = "send"
    /\ ~ChannelFull(articleChan)
    /\ articleChan' = Append(articleChan, wev[w])
    /\ wev' = [wev EXCEPT ![w] = NoEvent]
    /\ wpc' = [wpc EXCEPT ![w] = "loop"]
    /\ acct' = Bump("sent")
    /\ UNCHANGED << cfgVars, latchVars, mainpc, result, wpath, wpos, wres,
                    count, skipped, files, pathQueue, pathSent, pathOpen, db,
                    joined, okNames, errLog >>

\* Mutant: a constraint violation is not told from other failures, and the
\* article table has no UNIQUE constraint to raise it.
SerializeArticle_NoUnique(d, m) ==
    IF m.elem.env \in {"insert", "body"}
    THEN [res |-> DbError(m.elem.env, m.count), db |-> d, skip |-> 0]
    ELSE [res |-> Ok,
          db |-> [article |-> d.article \cup
                              {[id |-> d.lastId + 1, name |-> m.elem.key]},
                  body |-> d.body \cup {[id |-> Cardinality(d.body) + 1,
                                          article_id |-> d.lastId + 1]},
                  lastId |-> d.lastId + 1],
          skip |-> 0]

\* Mutant: a transaction that is dropped is committed.
TxDropped_Commits(before, pending) == pending

\* rusqlite's Transaction is rolled back when it is dropped without a
\* commit (sql.rs 80: conn.transaction(), the default drop behaviour).
TxDropped(before, pending) == before

\* serialize_article (sql.rs 75-114): one transaction. A constraint
\* violation on the article insert (the name is stored already) counts the
\* record as skipped and is Ok; any other failure (env: the row cannot be
\* written) is returned, and the transaction, dropped without a commit, is
\* rolled back.
SerializeArticle(d, m) ==
    LET inserted == [d EXCEPT !.article = @ \cup
                                  {[id |-> d.lastId + 1, name |-> m.elem.key]},
                              !.lastId = d.lastId + 1]
        withBody == [inserted EXCEPT !.body = @ \cup
                                  {[id |-> Cardinality(d.body) + 1,
                                    article_id |-> inserted.lastId]}]
    IN IF \E r \in d.article : r.name = m.elem.key
       THEN [res |-> Ok, db |-> TxDropped(d, d), skip |-> 1]
       ELSE IF m.elem.env = "insert"
       THEN [res |-> DbError("insert", m.count), db |-> TxDropped(d, d),
             skip |-> 0]
       ELSE IF m.elem.env = "body"
       THEN [res |-> DbError("body", m.count), db |-> TxDropped(d, inserted),
             skip |-> 0]
       ELSE [res |-> Ok, db |-> withBody, skip |-> 0]

\* sql.rs 194-196: the writer takes one message and writes it; an error
\* leaves extract at once.
SqlWrite ==
    /\ prog = "sql" /\ mainpc = "write"
    /\ articleChan # << >>
    /\ LET s == SerializeArticle(db, Head(articleChan))
       IN /\ articleChan' = Tail(articleChan)
          /\ db' = s.db
          /\ skipped' = skipped + s.skip
          /\ IF s.res = Ok
             THEN /\ okNames' = okNames \cup {Head(articleChan).elem.key}
                  /\ acct' = Bump(IF s.skip = 1 THEN "duplicate" ELSE "stored")
                  /\ lastSunk' = [lastSunk EXCEPT ![Head(articleChan).src] =
                                    Head(articleChan).pos]
                  /\ UNCHANGED << mainpc, result, errLog >>
             ELSE /\ mainpc' = "done"
                  /\ result' = s.res
                  /\ errLog' = Append(errLog, s.res)
                  /\ UNCHANGED << okNames, acct, lastSunk >>
    /\ UNCHANGED << runCfg, fileBody, latchVars, wpc, wpath, wpos, wev, wres,
                    count, files, pathQueue, pathSent, pathOpen, joined >>

\* The worker's article_sender is dropped when its thread ends.
SenderDropped(w) == wpc[w] = "done"

\* sql.rs 194, 197: recv fails once the channel is empty and every sender
\* is dropped; the connection is closed.
SqlWriteEnd ==
    /\ prog = "sql" /\ mainpc = "write"
    /\ articleChan = << >>
    /\ \A w \in Workers : SenderDropped(w)
    /\ mainpc' = "join"
    /\ UNCHANGED << cfgVars, latchVars, sqlVars, result, wpc, wpath, wpos,
                    wev, wres, count, skipped, files, acct, errLog >>

\* Mutant: a handle whose join fails is passed over.
SqlJoin_PanicIgnored ==
    /\ prog = "sql" /\ mainpc = "join"
    /\ IF joined = workers
       THEN /\ mainpc' = "done"
            /\ result' = Ok
            /\ UNCHANGED joined
       ELSE /\ wpc[joined + 1] = "done"
            /\ joined' = joined + 1
            /\ IF wres[joined + 1] = Ok \/ wres[joined + 1].kind = "Panic"
               THEN UNCHANGED << mainpc, result >>
               ELSE /\ mainpc' = "done"
                    /\ result' = wres[joined + 1]
    /\ UNCHANGED << cfgVars, latchVars, wpc, wpath, wpos, wev, wres, count,
                    skipped, files, pathQueue, pathSent, pathOpen,
                    articleChan, db, okNames, acct, errLog >>

\* Mutant: join()? with a single `?`: a worker's own result is dropped.
SqlJoin_ResultDropped ==
    /\ prog = "sql" /\ mainpc = "join"
    /\ IF joined = workers
       THEN /\ mainpc' = "done"
            /\ result' = Ok
            /\ UNCHANGED joined
       ELSE /\ wpc[joined + 1] = "done"
            /\ joined' = joined + 1
            /\ UNCHANGED << mainpc, result >>
    /\ UNCHANGED << cfgVars, latchVars, wpc, wpath, wpos, wev, wres, count,
                    skipped, files, pathQueue, pathSent, pathOpen,
                    articleChan, db, okNames, acct, errLog >>

\* sql.rs 198-208: the handles are joined in the order of spawning; the
\* first worker result that is an error is returned.
SqlJoin ==
    /\ prog = "sql" /\ mainpc = "join"
    /\ IF joined = workers
       THEN /\ mainpc' = "done"
            /\ result' = Ok
            /\ UNCHANGED joined
       ELSE /\ wpc[joined + 1] = "done"
            /\ joined' = joined + 1
            /\ IF wres[joined + 1] = Ok
               THEN UNCHANGED << mainpc, result >>
               ELSE /\ mainpc' = "done"
                    /\ result' = wres[joined + 1]
    /\ UNCHANGED << cfgVars, latchVars, wpc, wpath, wpos, wev, wres, count,
                    skipped, files, pathQueue, pathSent, pathOpen,
                    articleChan, db, okNames, acct, errLog >>

NextSql ==
    \/ SqlStart
    \/ SqlEnqueue
    \/ SqlDropPathSender
    \/ \E w \in Slots : \/ SqlRecvPath(w)
                        \/ RunOpen(w) \/ RunEnd(w) \/ RunDecode(w)
                        \/ SqlParse(w)
                        \/ SqlSend(w)
    \/ SqlWrite
    \/ SqlWriteEnd
    \/ SqlJoin

SpecSql == InitSql /\ [][NextSql]_vars

\* A worker thread panics (an unwrap that fails, sql.rs 62, or any other
\* fault at run time): the thread unwinds, what it holds is dropped, its
\* sender with it, and join (sql.rs 199-201) gives an Err that extract maps
\* to "Unexpected panic in worker thread".
WorkerPanic(w) ==
    /\ prog = "sql" /\ mainpc # "done"
    /\ wpc[w] \in {"recv", "open", "loop", "parse", "send"}
    /\ wpc' = [wpc EXCEPT ![w] = "done"]
    /\ wres' = [wres EXCEPT ![w] = PanicError]
    /\ wev' = [wev EXCEPT ![w] = NoEvent]
    /\ errLog' = Append(errLog, PanicError)
    /\ UNCHANGED << cfgVars, latchVars, sqlVars, mainpc, result, wpath, wpos,
                    count, skipped, files, acct >>

NextSqlPanic == NextSql \/ \E w \in Slots : WorkerPanic(w)

SpecSqlPanic == InitSql /\ [][NextSqlPanic]_vars

\* --------------------------------------------------- program "nested"
\* File names are sequences of characters; a path is the sequence of the
\* names below target_dir.
NestedNames == { <<"a">>, <<"a", "b">>, <<"a", "b", "a">> }
TopDirs == { <<"a">>, <<"b">> }

\* process_file 74-88: the directory a file name is sharded into, named by
\* its first and second character.
ShardDir(n) ==
    IF Len(n) = 0 THEN << >>
    ELSE IF Len(n) = 1 THEN << <<n[1]>> >>
    ELSE << <<n[1]>>, <<n[2]>> >>

\* process_file 110: target_file.push(name).
ShardPath(n) == Append(ShardDir(n), n)

Prefixes(p) == { SubSeq(p, 1, k) : k \in 1..Len(p) }

\* std::fs::create_dir_all succeeds unless a component of the path is there
\* and is not a directory.
CreateDirAllOk(p, regular) == \A q \in Prefixes(p) : q \notin regular

\* std::fs::rename of a regular file: the source must be there, the
\* directory of the destination too, and the destination must not be a
\* directory.
RenameOk(from, to, regular, dirs) ==
    /\ from \in regular
    /\ to \notin dirs
    /\ (Len(to) > 1 => SubSeq(to, 1, Len(to) - 1) \in dirs)

InitNested ==
    /\ prog = "nested"
    /\ fileKind = << >>
    /\ limit = NoLimit
    /\ skip_existing = FALSE
    /\ workers = PoolSize
    /\ InitRun
    /\ InitLazy
    /\ \E S \in SUBSET NestedNames : \E D \in SUBSET (TopDirs \ S) :
         /\ fsFiles = { <<n>> : n \in S }
         /\ fsDirs = { <<n>> : n \in D }
         /\ todo = S \cup D
    /\ existing_dirs = {}
    /\ wfile = [w \in Slots |-> << >>]

Pool == 1..PoolSize

\* ensure_nested.rs 18-35: read_dir, the channel, the pool.
NestedStart ==
    /\ prog = "nested" /\ mainpc = "start"
    /\ mainpc' = "iter"
    /\ wpc' = [w \in Slots |-> IF w \in Pool THEN "recv" ELSE "idle"]
    /\ UNCHANGED << cfgVars, latchVars, sqlVars, result, wpath, wpos, wev,
                    wres, count, skipped, files, acct, errLog >>

\* ensure_nested.rs 36-59: the next entry; a directory is passed over, any
\* other entry is sent, which blocks while the channel is full.
NestedIter ==
    /\ prog = "nested" /\ mainpc = "iter"
    /\ \E e \in todo :
         /\ todo' = todo \ {e}
         /\ IF <<e>> \in fsDirs
            THEN UNCHANGED pathQueue
            ELSE /\ Len(pathQueue) < PATH_CHANNEL_BOUND
                 /\ pathQueue' = Append(pathQueue, e)
    /\ UNCHANGED << auxVars, fileBody, lastSunk, prog, fileKind, limit,
                    skip_existing, workers, fsFiles,
                    fsDirs, existing_dirs, wfile, latchVars, mainpc, result,
                    wpc, wpath, wpos, wev, wres, count, skipped, files,
                    pathSent, pathOpen, articleChan, db, joined, okNames,
                    acct, errLog >>

\* ensure_nested.rs 61: drop(sender).
NestedDropSender ==
    /\ prog = "nested" /\ mainpc = "iter"
    /\ todo = {}
    /\ pathOpen' = FALSE
    /\ mainpc' = "join"
    /\ UNCHANGED << cfgVars, latchVars, result, wpc, wpath, wpos, wev, wres,
                    count, skipped, files, pathQueue, pathSent, articleChan,
                    db, joined, okNames, acct, errLog >>

\* Mutant: the entry received stays in the channel.
NestedRecv_Peek(w) ==
    /\ prog = "nested" /\ wpc[w] = "recv"
    /\ IF pathQueue # << >>
       THEN /\ wfile' = [wfile EXCEPT ![w] = Head(pathQueue)]
            /\ pathQueue' = pathQueue
            /\ wpc' = [wpc EXCEPT ![w] = "lookup"]
       ELSE /\ ~pathOpen
            /\ wpc' = [wpc EXCEPT ![w] = "done"]
            /\ UNCHANGED << wfile, pathQueue >>
    /\ UNCHANGED << auxVars, fileBody, lastSunk, prog, fileKind, limit,
                    skip_existing, workers, todo,
                    fsFiles, fsDirs, existing_dirs, latchVars, mainpc, result,
                    wpath, wpos, wev, wres, count, skipped, files, pathSent,
                    pathOpen, articleChan, db, joined, okNames, acct, errLog >>

\* ensure_nested.rs 30-33: receiver.recv() in the worker's loop.
NestedRecv(w) ==
    /\ prog = "nested" /\ wpc[w] = "recv"
    /\ IF pathQueue # << >>
       THEN /\ wfile' = [wfile EXCEPT ![w] = Head(pathQueue)]
            /\ pathQueue' = Tail(pathQueue)
            /\ wpc' = [wpc EXCEPT ![w] = "lookup"]
       ELSE /\ ~pathOpen
            /\ wpc' = [wpc EXCEPT ![w] = "done"]
            /\ UNCHANGED << wfile, pathQueue >>
    /\ UNCHANGED << auxVars, fileBody, lastSunk, prog, fileKind, limit,
                    skip_existing, workers, todo,
                    fsFiles, fsDirs, existing_dirs, latchVars, mainpc, result,
                    wpath, wpos, wev, wres, count, skipped, files, pathSent,
                    pathOpen, articleChan, db, joined, okNames, acct, errLog >>

\* Mutant: the path is put into the set in the critical section of the
\* lookup, before the directory is made.
NestedLookup_Inserts(w) ==
    /\ prog = "nested" /\ wpc[w] = "lookup"
    /\ existing_dirs' = existing_dirs \cup {ShardDir(wfile[w])}
    /\ wpc' = [wpc EXCEPT ![w] =
                 IF ShardDir(wfile[w]) \in existing_dirs THEN "rename" ELSE "mkdir"]
    /\ UNCHANGED << auxVars, fileBody, lastSunk, prog, fileKind, limit,
                    skip_existing, workers, todo,
                    fsFiles, fsDirs, wfile, latchVars, sqlVars, mainpc,
                    result, wpath, wpos, wev, wres, count, skipped, files,
                    acct, errLog >>

\* process_file 89-93: the lookup, under the lock.
NestedLookup(w) ==
    /\ prog = "nested" /\ wpc[w] = "lookup"
    /\ wpc' = [wpc EXCEPT ![w] =
                 IF ShardDir(wfile[w]) \in existing_dirs THEN "rename" ELSE "mkdir"]
    /\ UNCHANGED << cfgVars, latchVars, sqlVars, mainpc, result, wpath, wpos,
                    wev, wres, count, skipped, files, acct, errLog >>

\* process_file 94-108: create_dir_all; a failure gives the file up.
NestedMkdir(w) ==
    /\ prog = "nested" /\ wpc[w] = "mkdir"
    /\ IF CreateDirAllOk(ShardDir(wfile[w]), fsFiles)
       THEN /\ fsDirs' = fsDirs \cup Prefixes(ShardDir(wfile[w]))
            /\ wpc' = [wpc EXCEPT ![w] = "insert"]
       ELSE /\ wpc' = [wpc EXCEPT ![w] = "recv"]
            /\ UNCHANGED fsDirs
    /\ UNCHANGED << auxVars, fileBody, lastSunk, prog, fileKind, limit,
                    skip_existing, workers, todo,
                    fsFiles, existing_dirs, wfile, latchVars, sqlVars, mainpc,
                    result, wpath, wpos, wev, wres, count, skipped, files,
                    acct, errLog >>

\* process_file 96-99: the insert, under the lock.
NestedInsert(w) ==
    /\ prog = "nested" /\ wpc[w] = "insert"
    /\ existing_dirs' = existing_dirs \cup {ShardDir(wfile[w])}
    /\ wpc' = [wpc EXCEPT ![w] = "rename"]
    /\ UNCHANGED << auxVars, fileBody, lastSunk, prog, fileKind, limit,
                    skip_existing, workers, todo,
                    fsFiles, fsDirs, wfile, latchVars, sqlVars, mainpc,
                    result, wpath, wpos, wev, wres, count, skipped, files,
                    acct, errLog >>

\* Mutant: the file is copied to its place and the original left behind.
NestedRename_Copies(w) ==
    /\ prog = "nested" /\ wpc[w] = "rename"
    /\ IF RenameOk(<<wfile[w]>>, ShardPath(wfile[w]), fsFiles, fsDirs)
       THEN /\ fsFiles' = fsFiles \cup {ShardPath(wfile[w])}
            /\ count' = count + 1
       ELSE UNCHANGED << fsFiles, count >>
    /\ wpc' = [wpc EXCEPT ![w] = "recv"]
    /\ UNCHANGED << auxVars, fileBody, lastSunk, prog, fileKind, limit,
                    skip_existing, workers, todo,
                    fsDirs, existing_dirs, wfile, latchVars, sqlVars, mainpc,
                    result, wpath, wpos, wev, wres, skipped, files, acct,
                    errLog >>

\* process_file 110-132: rename, and the counter after a rename that worked.
NestedRename(w) ==
    /\ prog = "nested" /\ wpc[w] = "rename"
    /\ IF RenameOk(<<wfile[w]>>, ShardPath(wfile[w]), fsFiles, fsDirs)
       THEN /\ fsFiles' = (fsFiles \ {<<wfile[w]>>}) \cup {ShardPath(wfile[w])}
            /\ count' = count + 1
       ELSE UNCHANGED << fsFiles, count >>
    /\ wpc' = [wpc EXCEPT ![w] = "recv"]
    /\ UNCHANGED << auxVars, fileBody, lastSunk, prog, fileKind, limit,
                    skip_existing, workers, todo,
                    fsDirs, existing_dirs, wfile, latchVars, sqlVars, mainpc,
                    result, wpath, wpos, wev, wres, skipped, files, acct,
                    errLog >>

\* ensure_nested.rs 62-65: every handle is joined, then main returns Ok.
NestedJoin ==
    /\ prog = "nested" /\ mainpc = "join"
    /\ IF joined = PoolSize
       THEN /\ mainpc' = "done"
            /\ result' = Ok
            /\ UNCHANGED joined
       ELSE /\ wpc[joined + 1] = "done"
            /\ joined' = joined + 1
            /\ UNCHANGED << mainpc, result >>
    /\ UNCHANGED << cfgVars, latchVars, wpc, wpath, wpos, wev, wres, count,
                    skipped, files, pathQueue, pathSent, pathOpen,
                    articleChan, db, okNames, acct, errLog >>

NextNested ==
    \/ NestedStart
    \/ NestedIter
    \/ NestedDropSender
    \/ \E w \in Slots : \/ NestedRecv(w) \/ NestedLookup(w) \/ NestedMkdir(w)
                        \/ NestedInsert(w) \/ NestedRename(w)
    \/ NestedJoin

SpecNested == InitNested /\ [][NextNested]_vars

\* ------------------------------------------------------- all programs
Init == InitOld \/ InitFs \/ InitSql \/ InitNested

Next == NextOld \/ NextFs \/ NextSql \/ NextNested

Spec == Init /\ [][Next]_vars

\* ------------------------------------------- the pools under fairness
\* Every thread is an OS thread: one that can take a step is scheduled in
\* the end.
SqlMain ==
    SqlStart \/ SqlEnqueue \/ SqlDropPathSender \/ SqlWrite \/ SqlWriteEnd
        \/ SqlJoin

SqlWorker(w) ==
    SqlRecvPath(w) \/ RunOpen(w) \/ RunEnd(w) \/ RunDecode(w) \/ SqlParse(w)
        \/ SqlSend(w)

NestedMain == NestedStart \/ NestedIter \/ NestedDropSender \/ NestedJoin

NestedWorker(w) ==
    NestedRecv(w) \/ NestedLookup(w) \/ NestedMkdir(w) \/ NestedInsert(w)
        \/ NestedRename(w)

InitPools == InitSql \/ InitNested

NextPools == NextSql \/ NextNested

Fairness ==
    /\ WF_vars(SqlMain)
    /\ WF_vars(NestedMain)
    /\ \A w \in Slots : WF_vars(SqlWorker(w)) /\ WF_vars(NestedWorker(w))

SpecPools == InitPools /\ [][NextPools]_vars /\ Fairness

\* ------------------------------------------- ensure-nested, run twice
\* The names of the entries of target_dir, as read_dir gives them.
TopEntries(regular, dirs) == { q[1] : q \in { r \in regular \cup dirs : Len(r) = 1 } }

\* The command is run again on the directory a complete run has left: a new
\* process, with a new counter, channel, pool and set of known directories.
NestedAgain ==
    /\ prog = "nested" /\ mainpc = "done" /\ run = 1
    /\ run' = 2
    /\ snap' = [NoSnap EXCEPT !.fsFiles = fsFiles, !.fsDirs = fsDirs]
    /\ todo' = TopEntries(fsFiles, fsDirs)
    /\ existing_dirs' = {}
    /\ wfile' = [w \in Slots |-> << >>]
    /\ mainpc' = "start"
    /\ result' = NoResult
    /\ wpc' = [w \in Slots |-> "idle"]
    /\ count' = 0
    /\ joined' = 0
    /\ pathOpen' = TRUE
    /\ UNCHANGED << prog, fileKind, limit, skip_existing, workers, fsFiles,
                    fsDirs, streams, fin, fout, fileBody, lastSunk, latchVars,
                    wpath, wpos, wev, wres, skipped, files, pathQueue,
                    pathSent, articleChan, db, okNames, acct, errLog >>

SpecNestedTwice == InitNested /\ [][NextNested \/ NestedAgain]_vars

\* ------------------------------------- the filesystem sink, run twice
\* The elements of the sources that are read twice: malformed values and
\* records that the sink can write.
RerunElements ==
    { [wf |-> FALSE, marker |-> FALSE, key |-> "a", env |-> "ok"] }
    \cup { [wf |-> TRUE, marker |-> TRUE, key |-> k, env |-> "ok"] :
             k \in {"a", "b", "c"} }

StreamsOf(n) ==
    [1..n -> UNION { [1..k -> RerunElements] : k \in 0..MaxRecords }]

\* Both versions of the filesystem extractor, over sources whose elements
\* are fixed, into an empty target_dir, without skip_existing.
InitRerun ==
    /\ prog \in {"old", "fs"}
    /\ \E n \in 1..MaxPaths :
         /\ fileKind = [p \in 1..n |-> "file"]
         /\ streams \in StreamsOf(n)
    /\ limit = NoLimit
    /\ skip_existing = FALSE
    /\ workers = 0
    /\ fin = NoInput
    /\ InitNoNested
    /\ InitRun

\* The command is run again over the same sources and the same target_dir,
\* now with skip_existing: a new process, with new counters.
RunAgain ==
    /\ prog \in {"old", "fs"} /\ mainpc = "done" /\ run = 1
    /\ result = Ok
    /\ run' = 2
    /\ skip_existing' = TRUE
    /\ snap' = [NoSnap EXCEPT !.files = files, !.fileBody = fileBody]
    /\ mainpc' = "start"
    /\ result' = NoResult
    /\ wpc' = [w \in Slots |-> "idle"]
    /\ wpath' = [w \in Slots |-> 0]
    /\ wpos' = [w \in Slots |-> 0]
    /\ wev' = [w \in Slots |-> NoEvent]
    /\ wres' = [w \in Slots |-> NoResult]
    /\ count' = 0
    /\ skipped' = 0
    /\ stopRequested' = FALSE
    /\ firstError' = NoResult
    /\ acct' = AcctZero
    /\ errLog' = << >>
    /\ lastSunk' = [p \in 1..MaxPaths |-> 0]
    /\ UNCHANGED << prog, fileKind, limit, workers, nestedVars, streams, fin,
                    fout, fileBody, files, sqlVars >>

NextRerun == NextOld \/ NextFs \/ RunAgain

SpecRerun == InitRerun /\ [][NextRerun]_vars

\* ---------------------------------------- the functions on their own
\* A string is the sequence of its chars (Unicode scalar values); a path is
\* the sequence of its components. Invalid stands for a byte sequence of a
\* file name that is not UTF-8.
Escaped == {"/", ":", "*"}
KeyChars == Escaped \cup {"_", "c"}
Invalid == "\\xFF"
NameChars == KeyChars \cup {Invalid}

Names(chars) == UNION { [1..k -> chars] : k \in 0..MaxNameLen }

RECURSIVE Replace(_, _, _)
\* str::replace(from, to) for a pattern of one char: every occurrence is
\* replaced, the rest is copied.
Replace(str, from, to) ==
    IF str = << >> THEN << >>
    ELSE (IF Head(str) = from THEN to ELSE << Head(str) >>)
             \o Replace(Tail(str), from, to)

\* Mutant: the copy stops after the first replacement.
sanitize_name_Truncating(name) ==
    LET cut == { i \in 1..Len(name) : name[i] \in Escaped }
    IN IF cut = {} THEN name
       ELSE LET i == CHOOSE k \in cut : \A l \in cut : k <= l
            IN SubSeq(name, 1, i - 1) \o << "_", "_" >>

\* Mutant: the replacement of `*` is missing.
sanitize_name_NoStar(name) ==
    Replace(Replace(name, "/", << "_", "_" >>),
            ":", << "_", "_", "c", "o", "l", "o", "n", "_", "_" >>)

\* files.rs 143-147.
sanitize_name(name) ==
    Replace(Replace(Replace(name, "/", << "_", "_" >>),
                    ":", << "_", "_", "c", "o", "l", "o", "n", "_", "_" >>),
            "*", << "_", "_", "s", "t", "a", "r", "_", "_" >>)

\* extract.rs 157-161: the same replacements, with string patterns.
old_sanitize_name(name) ==
    Replace(Replace(Replace(name, "/", << "_", "_" >>),
                    ":", << "_", "_", "c", "o", "l", "o", "n", "_", "_" >>),
            "*", << "_", "_", "s", "t", "a", "r", "_", "_" >>)

\* main.rs 78-82: the same replacements, written out where the target file
\* is computed.
main_sanitize_name(name) ==
    Replace(Replace(Replace(name, "/", << "_", "_" >>),
                    ":", << "_", "_", "c", "o", "l", "o", "n", "_", "_" >>),
            "*", << "_", "_", "s", "t", "a", "r", "_", "_" >>)

\* A url is put together from pieces that make `/wiki/` occur not at all,
\* once, several times and overlapping.
PREFIX == << "/", "w", "i", "k", "i", "/" >>
UrlChunks ==
    { PREFIX, << "/", "w", "i", "k", "i" >>, << "w", "i", "k", "i", "/" >>,
      << "c" >>, << "*" >> }

RECURSIVE Concat(_)
Concat(chunks) ==
    IF chunks = << >> THEN << >> ELSE Head(chunks) \o Concat(Tail(chunks))

Urls == { Concat(cs) : cs \in UNION { [1..k -> UrlChunks] : k \in 0..MaxChunks } }

\* The indices (from 0, as in Rust) at which pat occurs in str.
Matches(str, pat) ==
    { i \in 0..(Len(str) - Len(pat)) : SubSeq(str, i + 1, i + Len(pat)) = pat }

\* str::find: the index of the first occurrence, None when there is none.
None == -1
Find(str, pat) ==
    IF Matches(str, pat) = {} THEN None
    ELSE CHOOSE i \in Matches(str, pat) : \A j \in Matches(str, pat) : i <= j

\* Mutant: the key is what follows the last `/wiki/` of the url.
parse_url_Rfind(url) ==
    LET all == Matches(url, PREFIX)
        idx == IF all = {} THEN None
               ELSE CHOOSE i \in all : \A j \in all : i >= j
    IN IF idx = None THEN [ok |-> FALSE, val |-> << >>]
       ELSE [ok |-> TRUE,
             val |-> SubSeq(url, idx + Len(PREFIX) + 1, Len(url))
                         \o << ".", "h", "t", "m", "l" >>]

\* files.rs 135-141: Err when the url has no `/wiki/`, else what follows its
\* first occurrence, with `.html` added.
parse_url(url) ==
    LET idx == Find(url, PREFIX)
    IN IF idx = None THEN [ok |-> FALSE, val |-> << >>]
       ELSE [ok |-> TRUE,
             val |-> SubSeq(url, idx + Len(PREFIX) + 1, Len(url))
                         \o << ".", "h", "t", "m", "l" >>]

\* extract.rs 149-155: the same function.
old_parse_url(url) ==
    LET idx == Find(url, PREFIX)
    IN IF idx = None THEN [ok |-> FALSE, val |-> << >>]
       ELSE [ok |-> TRUE,
             val |-> SubSeq(url, idx + Len(PREFIX) + 1, Len(url))
                         \o << ".", "h", "t", "m", "l" >>]

\* PathBuf::push: an absolute component replaces the path, any other one is
\* added to it.
Push(path, comp) ==
    IF comp # << >> /\ Head(comp) = "/" THEN << comp >> ELSE Append(path, comp)

\* Mutant: the second directory is named by the first char again.
TargetFile_FirstTwice(target_dir, name, no_nesting) ==
    IF no_nesting \/ name = << >> THEN Push(target_dir, name)
    ELSE IF Len(name) = 1 THEN Push(Push(target_dir, << name[1] >>), name)
    ELSE Push(Push(Push(target_dir, << name[1] >>), << name[1] >>), name)

\* files.rs 54-75: target_file for a name, by the chars iterator.
TargetFile(target_dir, name, no_nesting) ==
    LET chars == name
        first == IF chars # << >> THEN << Head(chars) >> ELSE << >>
        rest == IF chars # << >> THEN Tail(chars) ELSE << >>
        second == IF rest # << >> THEN << Head(rest) >> ELSE << >>
        d1 == IF ~no_nesting /\ first # << >>
              THEN Push(target_dir, first) ELSE target_dir
        d2 == IF ~no_nesting /\ first # << >> /\ second # << >>
              THEN Push(d1, second) ELSE d1
    IN Push(d2, name)

\* extract.rs 85-104: the same, always nested.
OldTargetFile(target_dir, name) ==
    LET chars == name
        first == IF chars # << >> THEN << Head(chars) >> ELSE << >>
        rest == IF chars # << >> THEN Tail(chars) ELSE << >>
        second == IF rest # << >> THEN << Head(rest) >> ELSE << >>
        d1 == IF first # << >> THEN Push(target_dir, first) ELSE target_dir
        d2 == IF first # << >> /\ second # << >> THEN Push(d1, second) ELSE d1
    IN Push(d2, name)

\* OsStr::to_string_lossy: what is not UTF-8 becomes U+FFFD.
ToStringLossy(file_name) ==
    [i \in 1..Len(file_name) |->
        IF file_name[i] = Invalid THEN "\\uFFFD" ELSE file_name[i]]

\* Mutant: only the first char names a directory.
MovedTo_OneLevel(target_dir, file_name) ==
    LET name == ToStringLossy(file_name)
    IN IF name = << >> THEN Push(target_dir, name)
       ELSE Push(Push(target_dir, << name[1] >>), name)

\* ensure_nested.rs 74-110: where process_file moves a file to.
MovedTo(target_dir, file_name) ==
    LET name == ToStringLossy(file_name)
        chars == name
        first == IF chars # << >> THEN << Head(chars) >> ELSE << >>
        rest == IF chars # << >> THEN Tail(chars) ELSE << >>
        second == IF rest # << >> THEN << Head(rest) >> ELSE << >>
        d1 == IF first # << >> THEN Push(target_dir, first) ELSE target_dir
        d2 == IF first # << >> /\ second # << >> THEN Push(d1, second) ELSE d1
    IN Push(d2, name)

\* main/ensure_nested.rs 71-97: the older process_file.
OldMovedTo(target_dir, file_name) ==
    LET name == ToStringLossy(file_name)
        chars == name
        first == IF chars # << >> THEN << Head(chars) >> ELSE << >>
        rest == IF chars # << >> THEN Tail(chars) ELSE << >>
        second == IF rest # << >> THEN << Head(rest) >> ELSE << >>
        d1 == IF first # << >> THEN Push(target_dir, first) ELSE target_dir
        d2 == IF first # << >> /\ second # << >> THEN Push(d1, second) ELSE d1
    IN Push(d2, name)

TargetDirs == { << << "c" >> >>, << << "/" >>, << "c", "_" >> >> }

FnInputs ==
    { [fn |-> "shard", target_dir |-> d, name |-> n, no_nesting |-> f,
       other |-> << >>] :
         d \in TargetDirs, n \in Names(NameChars), f \in BOOLEAN }
    \cup
    { [fn |-> "sanitize", target_dir |-> << >>, name |-> n,
       no_nesting |-> FALSE, other |-> o] :
         n \in Names(KeyChars), o \in Names(KeyChars) }
    \cup
    { [fn |-> "parse_url", target_dir |-> << >>, name |-> u,
       no_nesting |-> FALSE, other |-> << >>] : u \in Urls }

InitFn ==
    /\ prog = "fn"
    /\ fileKind = << >>
    /\ limit = NoLimit
    /\ skip_existing = FALSE
    /\ workers = 0
    /\ InitNoNested
    /\ InitRun
    /\ streams = NoStreams
    /\ fin \in FnInputs

\* The paths the sinks and ensure-nested compute for one name.
FnShard ==
    /\ prog = "fn" /\ fin.fn = "shard" /\ fout.times = 0
    /\ fout' = [NoOutput EXCEPT
                  !.fn = "shard", !.times = 1,
                  !.target_file = TargetFile(fin.target_dir, fin.name,
                                             fin.no_nesting),
                  !.old_target_file = OldTargetFile(fin.target_dir, fin.name),
                  !.moved_to = MovedTo(fin.target_dir, fin.name),
                  !.old_moved_to = OldMovedTo(fin.target_dir, fin.name)]
    /\ UNCHANGED << prog, fileKind, limit, skip_existing, workers, nestedVars,
                    streams, run, snap, fin, fileBody, lastSunk, latchVars,
                    sqlVars, mainpc, result, wpc, wpath, wpos, wev, wres,
                    count, skipped, files, acct, errLog >>

\* sanitize_name on two raw keys.
FnSanitize ==
    /\ prog = "fn" /\ fin.fn = "sanitize" /\ fout.times = 0
    /\ fout' = [NoOutput EXCEPT
                  !.fn = "sanitize", !.times = 1,
                  !.sanitized = sanitize_name(fin.name),
                  !.old_sanitized = old_sanitize_name(fin.name),
                  !.other_sanitized = sanitize_name(fin.other),
                  !.main_sanitized = main_sanitize_name(fin.name),
                  !.resanitized = sanitize_name(sanitize_name(fin.name))]
    /\ UNCHANGED << prog, fileKind, limit, skip_existing, workers, nestedVars,
                    streams, run, snap, fin, fileBody, lastSunk, latchVars,
                    sqlVars, mainpc, result, wpc, wpath, wpos, wev, wres,
                    count, skipped, files, acct, errLog >>

\* parse_url on a url.
FnParseUrl ==
    /\ prog = "fn" /\ fin.fn = "parse_url" /\ fout.times = 0
    /\ fout' = [NoOutput EXCEPT
                  !.fn = "parse_url", !.times = 1,
                  !.key = parse_url(fin.name),
                  !.old_key = old_parse_url(fin.name)]
    /\ UNCHANGED << prog, fileKind, limit, skip_existing, workers, nestedVars,
                    streams, run, snap, fin, fileBody, lastSunk, latchVars,
                    sqlVars, mainpc, result, wpc, wpath, wpos, wev, wres,
                    count, skipped, files, acct, errLog >>

\* The function is applied to the same arguments once more.
FnAgain ==
    /\ prog = "fn" /\ fout.times = 1
    /\ fout' = [fout EXCEPT
                  !.times = 2,
                  !.again = IF fin.fn = "shard"
                            THEN TargetFile(fin.target_dir, fin.name,
                                            fin.no_nesting)
                            ELSE IF fin.fn = "sanitize"
                            THEN sanitize_name(fin.name)
                            ELSE parse_url(fin.name).val]
    /\ UNCHANGED << prog, fileKind, limit, skip_existing, workers, nestedVars,
                    streams, run, snap, fin, fileBody, lastSunk, latchVars,
                    sqlVars, mainpc, result, wpc, wpath, wpos, wev, wres,
                    count, skipped, files, acct, errLog >>

NextFn == FnShard \/ FnSanitize \/ FnParseUrl \/ FnAgain

SpecFn == InitFn /\ [][NextFn]_vars

\* The two filesystem extractors, and the functions they call on a url.
InitUrl == InitOld \/ InitFs \/ InitFn

NextUrl == NextOld \/ NextFs \/ NextFn

SpecUrl == InitUrl /\ [][NextUrl]_vars

\* ===================================================================
\* Claims
\* ===================================================================
Finished == mainpc = "done"

\* The successful sink writes of a filesystem run: extract.rs counts them in
\* `count`; the listener's writes are counted in the history.
SinkWrites == IF prog = "old" THEN count ELSE acct.written

\* C1 (as stated): when a filesystem extraction run has finished, the
\* successful sink writes, the skipped count and the decode errors add up to
\* the number of elements read from all streams.
C1_AllRecordsCounted ==
    (prog \in {"old", "fs"} /\ Finished /\ result = Ok)
        => SinkWrites + skipped + acct.decodeErr = acct.read

\* C1 (amended): when a filesystem extraction run has finished, the
\* successful sink writes, the skipped count and the decode errors add up to
\* the number of elements read less those that were only logged: records
\* without `/wiki/` in the url, records whose directory creation or file
\* write failed, and records refused by the limit check.
C1_RecordAccounting ==
    (prog \in {"old", "fs"} /\ Finished)
        => SinkWrites + skipped + acct.decodeErr
             = acct.read - (acct.noMarker + acct.mkdirFail + acct.writeFail
                            + acct.cancelled)

\* A finished run in which a record was written, one skipped, one malformed
\* and one had no `/wiki/` marker.
C1_Witness ==
    /\ prog \in {"old", "fs"} /\ Finished /\ result = Ok
    /\ SinkWrites > 0 /\ skipped > 0
    /\ acct.decodeErr > 0 /\ acct.noMarker > 0

Range(s) == { s[i] : i \in DOMAIN s }

\* The threads the orchestrator spawned.
Spawned == { w \in Slots : wpc[w] # "idle" }

\* The worker count W of a run: one per source, or command.workers.
WorkerCount == IF prog = "sql" THEN workers ELSE Len(fileKind)

C3_FirstErrorInTime ==
    (prog = "sql" /\ Finished /\ errLog # << >>) => result = errLog[1]

\* The records handed to the sink so far: the messages sent to the writer,
\* or the records the filesystem listener did not refuse.
RecordsToSink ==
    IF prog = "sql" THEN acct.sent
    ELSE acct.read - acct.decodeErr - acct.cancelled
         - Cardinality({ w \in Slots : wpc[w] = "parse" })

\* C5 (as stated): with a limit of K records and W workers the progress
\* counter never passes K + W, and no more than K + W records are handed to
\* the sink.
C5_CancellationBound ==
    (prog \in {"fs", "sql"} /\ limit # NoLimit)
        => /\ count <= limit + WorkerCount
           /\ RecordsToSink <= limit + WorkerCount

\* C6 (as stated): when the orchestrator has returned, every thread it
\* spawned has ended.
C6_JoinedBeforeReturn ==
    (prog \in {"fs", "sql", "nested"} /\ Finished)
        => \A w \in Spawned : wpc[w] = "done"

\* C10 (as stated): if a supplied path is not an existing file, no worker
\* is spawned, no path enqueued and no record written, and the run fails.
C10_FailFast ==
    (prog \in {"old", "fs", "sql"} /\ \E p \in Paths : fileKind[p] = "missing")
        => /\ Spawned = {}
           /\ pathSent = 0 /\ pathQueue = << >>
           /\ files = {} /\ db = EmptyDb
           /\ (Finished => IsFatal(result))

StoredNames(d) == { r.name : r \in d.article }

\* A step of the writer that takes a message whose name is stored already.
DuplicateWrite ==
    /\ prog = "sql" /\ mainpc = "write" /\ articleChan # << >>
    /\ articleChan' = Tail(articleChan)
    /\ Head(articleChan).elem.key \in StoredNames(db)

\* C7: writing a record whose name is stored already leaves the article
\* rows and the article_body rows as they are, adds one to the skipped count
\* and is no error; and at all times no two article rows have the same name
\* and the stored names are the names whose write returned Ok.
C7_DuplicateHandling ==
    /\ [][DuplicateWrite =>
            /\ db' = db
            /\ skipped' = skipped + 1
            /\ mainpc' = "write" /\ result' = NoResult]_vars
    /\ [](prog = "sql" =>
            /\ Cardinality(db.article) = Cardinality(StoredNames(db))
            /\ StoredNames(db) = okNames)

\* The writer has skipped a duplicate while a row is stored.
C7_Witness ==
    /\ prog = "sql" /\ skipped > 0 /\ acct.duplicate > 0
    /\ Cardinality(db.article) > 0

\* C8: the channel never holds more than its capacity; a worker that
\* holds a message to send leaves that state only by putting this very
\* message on a channel that has room, and until then keeps the message and
\* reads nothing further.
C8_Backpressure ==
    /\ [](Len(articleChan) <= ARTICLE_CHANNEL_BOUND)
    /\ [][\A w \in Slots :
            wpc[w] = "send" =>
              \/ /\ wpc'[w] = "send"
                 /\ wev'[w] = wev[w]
                 /\ wpos'[w] = wpos[w]
              \/ /\ Len(articleChan) < ARTICLE_CHANNEL_BOUND
                 /\ articleChan' = Append(articleChan, wev[w])]_vars

\* A worker holds a message while the channel is full.
C8_Witness ==
    \E w \in Slots :
        /\ wpc[w] = "send"
        /\ Len(articleChan) = ARTICLE_CHANNEL_BOUND

\* C9: under fair scheduling the relational run and the ensure-nested run
\* end; the orchestrator can always take its next step while it enqueues
\* paths; a worker in its receive loop ends once the path queue is closed
\* and empty; and in no state before the end are all threads blocked.
C9_Terminates ==
    /\ <>Finished
    /\ [](prog = "sql" /\ mainpc = "enqueue"
            => ENABLED (SqlEnqueue \/ SqlDropPathSender))
    /\ [](~Finished => ENABLED NextPools)
    /\ \A w \in Slots :
         (wpc[w] = "recv" /\ pathQueue = << >> /\ ~pathOpen)
             ~> (wpc[w] = "done" \/ Finished)

\* A relational run of two workers over two sources has ended with success
\* after storing a record.
C9_Witness ==
    /\ prog = "sql" /\ workers = 2 /\ Len(fileKind) = 2 /\ Finished
    /\ result = Ok /\ acct.stored > 0
    /\ \A w \in Workers : wpc[w] = "done"

\* A step in which an element of a stream failed to decode.
DecodeErrorStep == acct'.decodeErr # acct.decodeErr

\* C11: a malformed element of a stream is counted as one decode error and
\* nothing else happens: no error is latched or logged, the stop flag and
\* the result stay as they are, no thread ends or changes its position in
\* the code, and the sink is untouched; the worker only moves on to the next
\* element of the same stream.
C11_DecodeErrorsPerElement ==
    [][DecodeErrorStep =>
         /\ acct'.decodeErr = acct.decodeErr + 1
         /\ acct'.read = acct.read + 1
         /\ UNCHANGED << stopRequested, firstError, errLog, result, mainpc,
                         wpc, wres, wpath, files, fileBody, db, articleChan,
                         count, skipped >>
         /\ \E w \in Slots :
              /\ wpc[w] = "loop"
              /\ wpos' = [wpos EXCEPT ![w] = @ + 1]]_vars

\* The one source of a filesystem run gave a malformed element and then a
\* record, and the record's body is in its file.
C11_Witness ==
    /\ prog \in {"old", "fs"} /\ Len(fileKind) = 1
    /\ acct.decodeErr = 1 /\ acct.read = 2
    /\ \E r \in fileBody : r.body.pos = 2
    /\ ~stopRequested /\ errLog = << >>

\* A name as sanitize_name returns it: a string (valid UTF-8) without `/`,
\* `:` and `*`.
IsSanitized(name) == \A i \in 1..Len(name) : name[i] \notin Escaped \cup {Invalid}

\* baseDir/c1/c2/k, baseDir/c1/k for one char, baseDir/k for none.
ShardPathOf(baseDir, k) ==
    IF Len(k) = 0 THEN baseDir \o << k >>
    ELSE IF Len(k) = 1 THEN baseDir \o << << k[1] >>, k >>
    ELSE baseDir \o << << k[1] >>, << k[2] >>, k >>

\* C12: for a base directory and a sanitized key k the filesystem sink,
\* nesting enabled, writes to baseDir/c1/c2/k, to baseDir/c1/k when k has one
\* char and to baseDir/k when k is empty, in both versions of the sink; and
\* computing the path again gives the same path.
C12_ShardPath ==
    (/\ prog = "fn" /\ fout.fn = "shard"
     /\ IsSanitized(fin.name) /\ ~fin.no_nesting)
        => /\ fout.target_file = ShardPathOf(fin.target_dir, fin.name)
           /\ fout.old_target_file = ShardPathOf(fin.target_dir, fin.name)
           /\ (fout.times = 2 => fout.again = fout.target_file)

\* The path of a key of three chars has been computed, twice.
C12_Witness ==
    /\ prog = "fn" /\ fout.fn = "shard" /\ fout.times = 2
    /\ IsSanitized(fin.name) /\ ~fin.no_nesting
    /\ Len(fin.name) = 3 /\ fin.name[1] # fin.name[2]
    /\ Len(fout.target_file) = Len(fin.target_dir) + 3

\* C13: for a file name n that can be a key (UTF-8, nothing escaped left in
\* it) and a directory d, both versions of ensure-nested's process_file move
\* the file to the path the filesystem sink, nesting enabled, writes key n
\* to under d.
C13_OneShardingScheme ==
    (/\ prog = "fn" /\ fout.fn = "shard"
     /\ IsSanitized(fin.name) /\ fin.name # << >>)
        => /\ fout.moved_to = TargetFile(fin.target_dir, fin.name, FALSE)
           /\ fout.old_moved_to = TargetFile(fin.target_dir, fin.name, FALSE)
           /\ fout.moved_to = OldTargetFile(fin.target_dir, fin.name)

\* The destination of a file name of two chars has been computed.
C13_Witness ==
    /\ prog = "fn" /\ fout.fn = "shard" /\ fout.times = 1
    /\ IsSanitized(fin.name) /\ Len(fin.name) = 2
    /\ fout.moved_to = fin.target_dir \o << << fin.name[1] >>, << fin.name[2] >>, fin.name >>

\* Two raw keys have the escaped chars at the same positions.
SameEscapedPositions(k1, k2) ==
    /\ Len(k1) = Len(k2)
    /\ \A i \in 1..Len(k1) :
         (k1[i] \in Escaped \/ k2[i] \in Escaped) => k1[i] = k2[i]

\* C15: two distinct raw keys that have `/`, `:`, `*` at the same positions
\* and differ only elsewhere are sanitized to different strings, by both
\* versions of sanitize_name, which agree.
C15_SanitizeInjective ==
    (prog = "fn" /\ fout.fn = "sanitize")
        => /\ fout.old_sanitized = fout.sanitized
           /\ (fin.name # fin.other /\ SameEscapedPositions(fin.name, fin.other)
                 => fout.sanitized # fout.other_sanitized)

\* Two keys that hold an escaped char at the same place and differ after it
\* have been sanitized.
C15_Witness ==
    /\ prog = "fn" /\ fout.fn = "sanitize" /\ fout.times = 1
    /\ Len(fin.name) = 3 /\ Len(fin.other) = 3
    /\ fin.name[1] = ":" /\ fin.name[3] # fin.other[3]
    /\ SameEscapedPositions(fin.name, fin.other)
    /\ fout.sanitized # fout.other_sanitized

\* C14: a second run of ensure-nested on the directory a complete run has
\* left moves no file, overwrites none, creates no directory and leaves
\* the counter of moves at 0, whatever its workers do in whatever order.
C14_NestedIdempotent ==
    (prog = "nested" /\ run = 2)
        => /\ fsFiles = snap.fsFiles
           /\ fsDirs = snap.fsDirs
           /\ count = 0

\* The second run has ended on a directory in which the first run moved a
\* file into its shard directory.
C14_Witness ==
    /\ prog = "nested" /\ run = 2 /\ Finished
    /\ \E f \in fsFiles : Len(f) = 3
    /\ fsFiles = snap.fsFiles

\* A step in which the filesystem sink counted a record as skipped.
SkipStep == acct'.skipped # acct.skipped

\* The listener of worker w is given a record that has a key, whose shard
\* directory can be made and whose target file is there, with skip_existing
\* set and no limit in the way.
SkipCase(w) ==
    /\ prog = "fs" /\ wpc[w] = "parse" /\ wpc'[w] # "parse"
    /\ skip_existing
    /\ ~(limit # NoLimit /\ wev[w].count >= limit)
    /\ wev[w].elem.marker /\ wev[w].elem.env # "mkdirfail"
    /\ wev[w].elem.key \in files

RecordPlaces ==
    { pl \in (1..Len(streams)) \X (1..MaxRecords) :
        /\ pl[2] <= Len(streams[pl[1]])
        /\ streams[pl[1]][pl[2]].wf }

MalformedPlaces ==
    { pl \in (1..Len(streams)) \X (1..MaxRecords) :
        /\ pl[2] <= Len(streams[pl[1]])
        /\ ~streams[pl[1]][pl[2]].wf }

\* No two records of the sources have the same canonical key.
DistinctKeys ==
    \A p1 \in RecordPlaces : \A p2 \in RecordPlaces :
        p1 # p2 => streams[p1[1]][p1[2]].key # streams[p2[1]][p2[2]].key

\* C17: over sources that hold N records with pairwise distinct keys, and
\* malformed elements, the first run, without skip_existing and into an
\* empty directory, ends with exactly N files and a written count of N (and
\* one decode error for each malformed element); the second run over the
\* same sources, with skip_existing, writes nothing, leaves every file as it
\* is, and ends with a skipped count of N.
C17_RunThenRerun ==
    (prog \in {"old", "fs"} /\ streams # NoStreams /\ DistinctKeys)
        => /\ (run = 1 /\ Finished
                 => /\ result = Ok
                    /\ Cardinality(files) = Cardinality(RecordPlaces)
                    /\ SinkWrites = Cardinality(RecordPlaces)
                    /\ count = Cardinality(RecordPlaces)
                    /\ skipped = 0
                    /\ acct.decodeErr = Cardinality(MalformedPlaces))
           /\ (run = 2
                 => /\ files = snap.files /\ fileBody = snap.fileBody
                    /\ SinkWrites = 0 /\ acct.written = 0)
           /\ (run = 2 /\ Finished
                 => /\ result = Ok
                    /\ skipped = Cardinality(RecordPlaces))

\* The second run over two sources that hold three records and a malformed
\* element has ended.
C17_Witness ==
    /\ prog \in {"old", "fs"} /\ streams # NoStreams /\ DistinctKeys
    /\ Len(streams) = 2
    /\ Cardinality(RecordPlaces) = 3 /\ Cardinality(MalformedPlaces) = 1
    /\ run = 2 /\ Finished /\ skipped = 3
    /\ Cardinality(files) = 3

\* The workers that ended by a panic.
Panicked == { w \in Workers : wres[w] = PanicError }

\* C18: when a worker of the relational run has panicked, the result of the
\* orchestrator is a fatal error that occurred and never success; it is the
\* error of the panic when nothing else failed.
C18_PanicIsFatal ==
    (prog = "sql" /\ Finished /\ Panicked # {})
        => /\ result # Ok /\ IsFatal(result)
           /\ result \in Range(errLog)
           /\ (Range(errLog) = {PanicError} => result = PanicError)

\* One of two workers has panicked, the other has returned Ok, the writer
\* has stored a record, and the run has ended with the error of the panic.
C18_Witness ==
    /\ prog = "sql" /\ workers = 2 /\ Finished
    /\ Cardinality(Panicked) = 1
    /\ \E w \in Workers : wres[w] = Ok
    /\ acct.stored > 0 /\ joined > 0
    /\ result = PanicError

\* The places of the records of source p on their way to the database, in
\* the order in which the writer gets them: those in the channel, then the
\* one a worker is holding.
RECURSIVE PlacesOf(_, _)
PlacesOf(p, ch) ==
    IF ch = << >> THEN << >>
    ELSE (IF Head(ch).src = p THEN << Head(ch).pos >> ELSE << >>)
         \o PlacesOf(p, Tail(ch))

HeldOf(p) ==
    LET ws == { w \in Workers : wev[w] # NoEvent /\ wev[w].src = p }
    IN IF ws = {} THEN << >> ELSE << wev[CHOOSE w \in ws : TRUE].pos >>

InFlight(p) == << lastSunk[p] >> \o PlacesOf(p, articleChan) \o HeldOf(p)

Increasing(sq) == \A i, j \in 1..Len(sq) : i < j => sq[i] < sq[j]

\* A record of source p is written to the sink in this step.
SinkStep(p) == lastSunk'[p] # lastSunk[p]

Moved == { f \in fsFiles : Len(f) > 1 }

\* C20: in extract and in ensure-nested the shared counter changes only by
\* an increment of one from the value it has, so that the increments return
\* 0, 1, ..., n-1, each once, and it is never reset; when the run is over it
\* equals the number of file writes (extract) or renames (ensure-nested)
\* that succeeded.
C20_ExactCounting ==
    /\ [][(prog \in {"old", "nested"})
            => (count' = count \/ count' = count + 1)]_vars
    /\ []((prog = "old" /\ Finished) => count = acct.written)
    /\ []((prog = "nested" /\ Finished) => count = Cardinality(Moved))

\* extract is over: two threads have each written records of their own
\* source, one of them two, and the counter stands at three.
C20_Witness ==
    /\ prog = "old" /\ Finished
    /\ lastSunk[1] = 2 /\ lastSunk[2] >= 1
    /\ count = 3 /\ acct.written = 3

\* A step of the thread that runs extract, in which it takes one message
\* from the article channel and no worker thread moves.
WriterStep ==
    /\ mainpc = "write"
    /\ articleChan # << >> /\ articleChan' = Tail(articleChan)
    /\ wpc' = wpc /\ wev' = wev /\ wpath' = wpath /\ wpos' = wpos
    /\ wres' = wres

\* The database, or what the sink has counted, changes in this step.
SinkTouched == db' # db \/ skipped' # skipped \/ lastSunk' # lastSunk

\* C21: in the relational run whatever changes the database is a step of
\* the one thread that receives from the article channel, never a step of a
\* worker; the step handles one message in one transaction, which is over
\* when the step is: at most one article row is added by it.
C21_SingleWriter ==
    [][(prog = "sql" /\ SinkTouched)
         => /\ WriterStep
            /\ Cardinality(db'.article) <= Cardinality(db.article) + 1
            /\ db'.lastId <= db.lastId + 1]_vars

\* Two workers have each sent a record of their own source; both records
\* are in the database, stored by the writer one after the other.
C21_Witness ==
    /\ prog = "sql" /\ workers = 2
    /\ lastSunk[1] = 1 /\ lastSunk[2] = 1
    /\ Cardinality(db.article) = 2
    /\ \A w \in Workers : wpc[w] \in {"loop", "parse", "send"}

\* A worker starts a record in this step: it reads the next element of its
\* source, and a record read goes to on_parse with the next count.
StartsRecord(w) ==
    \/ wpos'[w] > wpos[w]
    \/ (wpc[w] # "parse" /\ wpc'[w] = "parse")

\* What has been written stays: files, their content as far as no later
\* record of the same key replaces it, and the rows of the database.
WritesKept ==
    /\ files \subseteq files'
    /\ { b.key : b \in fileBody } \subseteq { b.key : b \in fileBody' }
    /\ db.article \subseteq db'.article
    /\ db.body \subseteq db'.body

\* C22: once stop is requested no worker starts a record, from the source
\* it is reading or from a path it takes from the queue afterwards, and the
\* count of records stands; a worker that holds a record then, having passed
\* the check, finishes that one only. Nothing written before is undone.
C22_PromptStop ==
    [][/\ (stopRequested => /\ \A w \in Slots : ~StartsRecord(w)
                            /\ count' = count)
       /\ WritesKept]_vars

\* Stop has been requested by the first worker, whose source could not be
\* opened, while the second holds a record that it read before: it has
\* passed the check and is about to send the record. A record has been
\* stored already.
C22_Witness ==
    /\ prog = "sql" /\ workers = 2
    /\ stopRequested /\ firstError = IoError(1)
    /\ wpc[1] = "done" /\ wpc[2] = "send" /\ wev[2].src = 2 /\ wev[2].pos = 2
    /\ lastSunk[2] = 1

\* What one char becomes when the three replacements are made at once.
EscapeOf(c) ==
    IF c = "/" THEN << "_", "_" >>
    ELSE IF c = ":" THEN << "_", "_", "c", "o", "l", "o", "n", "_", "_" >>
    ELSE IF c = "*" THEN << "_", "_", "s", "t", "a", "r", "_", "_" >>
    ELSE << c >>

RECURSIVE Simultaneous(_)
Simultaneous(str) ==
    IF str = << >> THEN << >>
    ELSE EscapeOf(Head(str)) \o Simultaneous(Tail(str))

\* C23: for every string sanitize_name gives a string without `/`, `:` and
\* `*`, which is the input with each `/` replaced by `__`, each `:` by
\* `__colon__`, each `*` by `__star__` and every other char kept in its
\* place; the three replacements in sequence give what they give at once,
\* in main.rs as well; and sanitize_name leaves its own output unchanged.
C23_SanitizeTotalAndSafe ==
    (prog = "fn" /\ fout.fn = "sanitize")
        => /\ \A i \in 1..Len(fout.sanitized) : fout.sanitized[i] \notin Escaped
           /\ fout.sanitized = Simultaneous(fin.name)
           /\ fout.main_sanitized = Simultaneous(fin.name)
           /\ fout.resanitized = fout.sanitized

\* The key `/:*` has been sanitized to `____colon____star__`, and the
\* result sanitized once more.
C23_Witness ==
    /\ prog = "fn" /\ fout.fn = "sanitize"
    /\ fin.name = << "/", ":", "*" >>
    /\ fout.sanitized = << "_", "_", "_", "_", "c", "o", "l", "o", "n", "_", "_",
                           "_", "_", "s", "t", "a", "r", "_", "_" >>
    /\ fout.resanitized = fout.sanitized

\* The rows of article_body that refer to the article row a.
BodiesOf(a) == { b \in db.body : b.article_id = a.id }

\* The writer's step ends with a database error.
WriteFails == prog = "sql" /\ mainpc = "write" /\ result'.kind = "Db"

\* C24: in every state of a relational run every article row has exactly
\* one article_body row that refers to it and every article_body row refers
\* to an article row that is there; a write that fails, after the article
\* insert or at it, leaves the database as it was.
C24_TransactionalWrite ==
    /\ [](prog = "sql" =>
            /\ \A a \in db.article : Cardinality(BodiesOf(a)) = 1
            /\ \A b \in db.body : \E a \in db.article : a.id = b.article_id
            /\ \A a1, a2 \in db.article : a1.id = a2.id => a1 = a2)
    /\ [][WriteFails => db' = db]_vars

\* A record was stored, a second one with the same name was skipped as a
\* duplicate, and the write of a third failed at the insert of its body
\* row: the article table holds the one row of the first.
C24_Witness ==
    /\ prog = "sql" /\ Finished
    /\ result.kind = "Db" /\ result.cause = "body"
    /\ acct.stored = 1 /\ acct.duplicate = 1
    /\ Cardinality(db.article) = 1 /\ Cardinality(db.body) = 1

\* The worker w of the relational run takes a path in this step.
TakesPath(w) == prog = "sql" /\ wpc[w] = "recv" /\ wpc'[w] = "open"

\* The paths are enqueued as 1, 2, ...: the queue holds the last of them in
\* that order, and what a worker holds was taken from its front.
PathsInOrder ==
    /\ \A i \in 1..Len(pathQueue) :
           pathQueue[i] = pathSent - Len(pathQueue) + i
    /\ \A w \in Workers : wpath[w] <= pathSent - Len(pathQueue)
    /\ \A v, w \in Workers : (v # w /\ wpath[v] # 0) => wpath[v] # wpath[w]

\* The workers of ensure-nested that are processing an entry.
Processing == { w \in Pool : wpc[w] \in {"lookup", "mkdir", "insert", "rename"} }

\* The entries of ensure-nested that are still to be processed: the files
\* not yet iterated, those in the channel and those a worker is processing.
Pending ==
    { e \in todo : << e >> \in fsFiles }
        \cup Range(pathQueue) \cup { wfile[w] : w \in Processing }

\* No entry is at two places of the hand-off.
PendingOnce ==
    /\ \A i, j \in 1..Len(pathQueue) : i # j => pathQueue[i] # pathQueue[j]
    /\ Range(pathQueue) \cap todo = {}
    /\ \A w \in Processing : wfile[w] \notin todo \cup Range(pathQueue)
    /\ \A v, w \in Processing : v # w => wfile[v] # wfile[w]

\* C25 (as stated): every path the orchestrator enqueued is taken by a
\* worker, whenever the writer has not failed.
C25_EveryPathTaken ==
    (prog = "sql" /\ Finished /\ result.kind # "Db") => pathQueue = << >>

\* C25 (amended): as long as the writer has not failed, the messages sent
\* are those written, skipped as duplicates or still in the channel, none
\* twice, and none is left when the writer's loop is over. A path is taken
\* from the front of the queue by one worker and never again, and every
\* path is taken when the run ends in success. In ensure-nested no entry is
\* at two places of the hand-off, an entry leaves it only when the worker
\* that received it has processed it, and none is left at the end.
C25_ExactlyOnceHandOff ==
    /\ []((prog = "sql" /\ result.kind # "Db") =>
            /\ acct.sent = acct.stored + acct.duplicate + Len(articleChan)
            /\ \A p \in 1..MaxPaths : Increasing(InFlight(p))
            /\ (mainpc \in {"join", "done"} => articleChan = << >>))
    /\ [](prog = "sql" =>
            /\ PathsInOrder
            /\ ((Finished /\ result = Ok) =>
                    pathQueue = << >> /\ pathSent = Len(fileKind)))
    /\ [][\A w \in Slots : TakesPath(w) =>
            /\ wpath'[w] = Head(pathQueue) /\ pathQueue' = Tail(pathQueue)
            /\ \A v \in Workers : wpath[v] < wpath'[w]
            /\ \A v \in Workers \ {w} : wpath'[v] = wpath[v]]_vars
    /\ [](prog = "nested" =>
            /\ PendingOnce
            /\ (Finished => Pending = {} /\ todo = {}))
    /\ [][prog = "nested" =>
            /\ Pending' \subseteq Pending
            /\ Pending \ Pending' \subseteq
                 { wfile[w] : w \in { v \in Processing : wpc'[v] = "recv" } }]_vars

\* A relational run of two workers over two sources has ended in success:
\* each worker took one path, three records were sent and three were
\* received by the writer, one of them a duplicate.
C25_Witness ==
    /\ prog = "sql" /\ workers = 2 /\ Finished /\ result = Ok
    /\ wpath = << 1, 2 >> /\ pathSent = 2
    /\ acct.sent = 3 /\ acct.stored = 2 /\ acct.duplicate = 1

\* The regular files that lie at the top of the directory.
TopFiles == { f \in fsFiles : Len(f) = 1 }

\* C26 (as stated): when ensure-nested has finished, no regular file is left
\* at the top of the directory, every file lies at the shard path of its
\* name, and the counter equals the number of files.
C26_RelocatesEveryFile ==
    (prog = "nested" /\ Finished)
        => /\ TopFiles = {}
           /\ \A f \in fsFiles : f = ShardPath(f[Len(f)])
           /\ count = Cardinality(fsFiles)

\* A step inside a critical section of the existence set: the lookup by a
\* worker, or its insert.
LockedStep ==
    \E w \in Pool : \/ (wpc[w] = "lookup" /\ wpc'[w] # "lookup")
                    \/ (wpc[w] = "insert" /\ wpc'[w] # "insert")

\* C27: the set is read and changed only in the two critical sections, in
\* which nothing is done to the file system; a directory is made and a file
\* renamed outside them. Every member of the set is a directory that is
\* there. A worker that is to rename, whether it made the directory, found
\* it made by another worker that raced with it, or found it in the set,
\* has its directory, and its rename moves the file.
C27_ExistenceSetDiscipline ==
    /\ [][prog = "nested" =>
            /\ (LockedStep => fsDirs' = fsDirs /\ fsFiles' = fsFiles)
            /\ (existing_dirs' # existing_dirs =>
                  /\ LockedStep
                  /\ \E w \in Pool :
                       /\ wpc[w] = "insert"
                       /\ existing_dirs' = existing_dirs \cup {ShardDir(wfile[w])})
            /\ \A w \in Pool : (wpc[w] = "rename" /\ wpc'[w] = "recv") =>
                  /\ ShardPath(wfile[w]) \in fsFiles'
                  /\ << wfile[w] >> \notin fsFiles'
                  /\ count' = count + 1]_vars
    /\ [](prog = "nested" =>
            /\ \A d \in existing_dirs : d \in fsDirs
            /\ \A w \in Pool : wpc[w] \in {"insert", "rename"} =>
                  ShardDir(wfile[w]) \in fsDirs)

\* Two workers have raced on the shard directory a/b: both looked it up
\* before either had inserted it and both have made it; the first has
\* inserted it and is to rename its file, the second is about to insert.
C27_Witness ==
    /\ prog = "nested" /\ run = 1
    /\ wpc[1] = "rename" /\ wpc[2] = "insert"
    /\ wfile[1] # wfile[2]
    /\ ShardDir(wfile[1]) = ShardDir(wfile[2])
    /\ ShardDir(wfile[1]) \in existing_dirs
    /\ << wfile[1] >> \in fsFiles /\ << wfile[2] >> \in fsFiles

\* A record whose url has no `/wiki/` is handled in this step.
NoMarkerStep == prog \in {"old", "fs"} /\ acct'.noMarker # acct.noMarker

\* `/wiki/` occurs in the url at index i and nowhere before.
FirstMarkerAt(url, i) ==
    /\ i \in Matches(url, PREFIX)
    /\ \A j \in Matches(url, PREFIX) : i <= j

\* C28: a record that comes to the url check with a url without `/wiki/`
\* changes no file and neither the written nor the skipped count, sets no
\* error, no stop and no result, and its worker goes on with its stream.
\* parse_url gives an error exactly for the urls without `/wiki/`, and else
\* what follows the first `/wiki/`, with `.html` added, in both extractors.
C28_UnusableUrlIsSkipped ==
    /\ [][NoMarkerStep =>
            /\ files' = files /\ fileBody' = fileBody
            /\ skipped' = skipped /\ acct'.written = acct.written
            /\ acct'.skipped = acct.skipped
            /\ (prog = "old" => count' = count)
            /\ stopRequested' = stopRequested /\ firstError' = firstError
            /\ errLog' = errLog /\ result' = result /\ wres' = wres
            /\ \A w \in Slots : wpc'[w] = wpc[w] \/ wpc'[w] = "loop"]_vars
    /\ []((prog = "fn" /\ fout.fn = "parse_url") =>
            /\ fout.key.ok = (Matches(fin.name, PREFIX) # {})
            /\ \A i \in 0..Len(fin.name) : FirstMarkerAt(fin.name, i) =>
                  fout.key.val = SubSeq(fin.name, i + 7, Len(fin.name))
                                     \o << ".", "h", "t", "m", "l" >>
            /\ fout.old_key = fout.key)

\* A run over one source has ended in success: its first record had no
\* `/wiki/` in its url and left nothing, its second was written.
C28_Witness ==
    /\ prog \in {"old", "fs"} /\ Finished /\ result = Ok
    /\ Len(fileKind) = 1
    /\ acct.read = 2 /\ acct.noMarker = 1 /\ acct.written = 1
    /\ lastSunk[1] = 2
    /\ Cardinality(files) = 1 /\ skipped = 0
====
